---- MODULE Spec2Model ----
(***************************************************************************)
(* Change-detection and queued-reconciliation engine of the playlist sync  *)
(* tool: the row store (utils/db.py), the diff step (update_playlists),    *)
(* the reconciler (update_songs) and the orphan sweep                      *)
(* (cleanup_orphaned_data) of sync.py, driven by the main pass.            *)
(***************************************************************************)
EXTENDS Integers, Sequences, FiniteSets, TLC

VARIABLES
    playlists,       \* table playlists: id -> [name, snapshot_id]
    queue,           \* table queue, in rowid order
    action_log,      \* table action_log, in rowid order
    songs,           \* table songs: id -> [popularity]
    artists,         \* table artists: id -> [popularity]
    playlist_songs,  \* table playlist_songs: set of <<playlist_id, song_id>>
    song_artists,    \* table song_artists: set of <<song_id, artist_id>>
    remote,          \* the remote service: playlist id -> [name, snapshot_id]
    now,             \* the store's clock (CURRENT_TIMESTAMP), one tick per run
    pc,              \* position of the run in sync.py
    tracked,         \* sync.py `playlists`: the snapshots of this pass
    modified,        \* update_playlists `modified_playlists`
    idx,             \* index of the running for-loop
    worklist,        \* update_songs `modified_playlists` (the rows get_queue returned)
    cur,             \* locals of one update_songs iteration
    failures,        \* number of injected remote/store failures so far
    pre,             \* the playlists table as it was when update_playlists was entered
    hist,            \* calls made on the db functions by the direct-call specifications
    request_times,   \* spotify.py:15 _request_times, the ledger of the rate limiter
    stage_failed,    \* sync.py:328-400 the errors the handlers of the running sweep logged: <<stage, item or None>>
    rate_limit_lock, \* spotify.py:17 _rate_limit_lock, None or the thread that holds it
    session_connection, \* db.py:6 _session_connection, None or an open connection
    failed_targets   \* sync.py:38-49, 59, 67-73, 83 ids of the playlists of the targets this pass could not fetch

vars == <<playlists, queue, action_log, songs, artists, playlist_songs, song_artists,
          remote, now, pc, tracked, modified, idx, worklist, cur, failures, pre, hist, request_times,
          stage_failed, rate_limit_lock, session_connection, failed_targets>>

extras == <<stage_failed, rate_limit_lock, session_connection, failed_targets>>

store == <<playlists, queue, action_log, songs, artists, playlist_songs, song_artists>>
locals == <<tracked, modified, idx, worklist, cur>>

----------------------------------------------------------------------------
(* Bounds of the model *)

MaxPasses == 2
MaxFailures == 1
MaxTracked == 2
MaxLen == 2

(* Universes *)

None == "None"
PIDs == {"p1", "p2"}
Snaps == {"s1", "s2"}
TIDs == {"t1", "t2", "t3"}
AIDs == {"a1", "a2"}

AutoMarker == <<"#", "a", "u", "t", "o">>
PlainName == <<"m", "#", "a">>
AutoName == <<"m", "#", "a", "u", "t", "o">>
Names == {PlainName, AutoName}

(* Remote catalogue: the artists of each track, and the items of a playlist
   at each fingerprint (a null-id stub stands for a deleted track). *)
TrackArtists(t) ==
    CASE t = "t1" -> <<"a1">>
      [] t = "t2" -> <<"a1", "a2">>
      [] OTHER -> <<"a2">>

Track(t) == [id |-> t, name |-> t, artists |-> TrackArtists(t)]
StubTrack == [id |-> None, name |-> None, artists |-> <<>>]

RemoteItems(snap) ==
    IF snap = "s1" THEN <<Track("t1"), Track("t2")>>
    ELSE <<Track("t2"), StubTrack, Track("t3"), Track("t2")>>

----------------------------------------------------------------------------
(* Helpers *)

Range(s) == {s[n] : n \in 1..Len(s)}

RECURSIVE SeqOfSet(_)
SeqOfSet(S) == IF S = {} THEN <<>>
               ELSE LET x == CHOOSE y \in S : TRUE IN <<x>> \o SeqOfSet(S \ {x})

\* Python `needle in hay` on strings
Contains(hay, needle) ==
    \E off \in 0..(Len(hay) - Len(needle)) :
        \A n \in 1..Len(needle) : hay[off + n] = needle[n]

\* playlist_name.startswith("#auto")
HasAutoMarker_Prefix(name) ==
    /\ Len(name) >= Len(AutoMarker)
    /\ \A n \in 1..Len(AutoMarker) : name[n] = AutoMarker[n]

\* sync.py:103  "#auto" in playlist_name
HasAutoMarker(name) == Contains(name, AutoMarker)

----------------------------------------------------------------------------
(* utils/db.py: the row store *)

EmptyTable == [x \in {} |-> None]

\* fetch_one: the rows found, none or one
get_playlist_by_id(pls, id) == IF id \in DOMAIN pls THEN <<pls[id]>> ELSE <<>>

\* compares the whole stored row, not the fingerprint alone
check_playlist_modified_WholeRow(pls, playlist) ==
    IF playlist.id \notin DOMAIN pls THEN TRUE
    ELSE pls[playlist.id] # [name |-> playlist.name, snapshot_id |-> playlist.snapshot_id]

check_playlist_modified(pls, playlist) ==
    IF playlist.id \notin DOMAIN pls THEN TRUE
    ELSE pls[playlist.id].snapshot_id # playlist.snapshot_id

get_modified_playlists(pls, current) ==
    SelectSeq(current, LAMBDA p : check_playlist_modified(pls, p))

get_playlist_snapshot_id(pls, id) ==
    IF id \in DOMAIN pls THEN pls[id].snapshot_id ELSE None

\* INSERT OR IGNORE: an existing row is kept
insert_playlist_KeepExisting(pls, playlist) ==
    [p \in DOMAIN pls \cup {playlist.id} |->
        IF p \in DOMAIN pls THEN pls[p]
        ELSE [name |-> playlist.name, snapshot_id |-> playlist.snapshot_id]]

insert_playlist(pls, playlist) ==
    [p \in DOMAIN pls \cup {playlist.id} |->
        IF p = playlist.id
        THEN [name |-> playlist.name, snapshot_id |-> playlist.snapshot_id]
        ELSE pls[p]]

insert_playlist_change(q, id, name, change_type, old, new, at) ==
    Append(q, [playlist_id |-> id, playlist_name |-> name, change_type |-> change_type,
               old_snapshot_id |-> old, new_snapshot_id |-> new, detected_at |-> at])

\* DELETE FROM queue WHERE playlist_id = ?
\* the DELETE without its WHERE clause
delete_queue_All(q, id) == <<>>

delete_queue(q, id) == SelectSeq(q, LAMBDA e : e.playlist_id # id)

clear_queue(q) == <<>>

get_queue_by_id(q, id) == SelectSeq(q, LAMBDA e : e.playlist_id = id)

\* SELECT * FROM queue ORDER BY detected_at DESC: every order of the rows that
\* is descending in detected_at (rows of equal detected_at come in any order)
get_queue(q) ==
    LET n == Len(q)
        perms == {f \in [1..n -> 1..n] : \A a, b \in 1..n : a # b => f[a] # f[b]}
        desc(f) == \A a, b \in 1..n : a < b => q[f[a]].detected_at >= q[f[b]].detected_at
    IN {[a \in 1..n |-> q[f[a]]] : f \in {g \in perms : desc(g)}}

\* details: <<added, removed>> for SYNC_COMPLETE, <<>> where the text carries no count
log_action(lg, action_type, entity_id, details, success, at) ==
    Append(lg, [action_type |-> action_type, entity_id |-> entity_id, details |-> details,
                success |-> success, timestamp |-> at])

insert_song(sg, track, at) ==
    [t \in DOMAIN sg \cup {track.id} |-> IF t = track.id THEN [popularity |-> at] ELSE sg[t]]

get_song_by_id(sg, id) == IF id \in DOMAIN sg THEN <<sg[id]>> ELSE <<>>

delete_song(sg, id) == [t \in DOMAIN sg \ {id} |-> sg[t]]

insert_artist(ar, artist) ==
    [a \in DOMAIN ar \cup {artist.id} |->
        IF a = artist.id THEN [popularity |-> artist.popularity] ELSE ar[a]]

delete_artist(ar, id) == [a \in DOMAIN ar \ {id} |-> ar[a]]

\* the row keyed on the song alone, so that a song keeps one artist
insert_song_artist_OnePerSong(sa, song_id, artist_id) ==
    {r \in sa : r[1] # song_id} \cup {<<song_id, artist_id>>}

insert_song_artist(sa, song_id, artist_id) == sa \cup {<<song_id, artist_id>>}

insert_playlist_song(ps, playlist_id, song_id) == ps \cup {<<playlist_id, song_id>>}

delete_playlist_song(ps, playlist_id, song_id) == ps \ {<<playlist_id, song_id>>}

\* the same without the WHERE clause
get_songs_in_playlist_AnyPlaylist(sg, ps, playlist_id) ==
    {t \in DOMAIN sg : \E r \in ps : r[2] = t}

\* songs JOIN playlist_songs WHERE playlist_id = ?  (the ids of the rows returned)
get_songs_in_playlist(sg, ps, playlist_id) ==
    {t \in DOMAIN sg : <<playlist_id, t>> \in ps}

\* the counts taken from the list of ids, not from the set differences
sync_playlist_songs_CountList(sg, ps, playlist_id, current_song_ids) ==
    LET stored_song_ids == get_songs_in_playlist(sg, ps, playlist_id)
        current_song_ids_set == Range(current_song_ids)
        songs_to_add == current_song_ids_set \ stored_song_ids
        songs_to_remove == stored_song_ids \ current_song_ids_set
    IN [playlist_songs |->
            (ps \cup {<<playlist_id, t>> : t \in songs_to_add})
                \ {<<playlist_id, t>> : t \in songs_to_remove},
        added |-> Len(SelectSeq(current_song_ids, LAMBDA t : t \notin stored_song_ids)),
        removed |-> Cardinality(songs_to_remove),
        songs_added |-> songs_to_add,
        songs_removed |-> songs_to_remove]

\* the DELETE of db.py:418-420 keyed on the song alone
sync_playlist_songs_AnyPlaylist(sg, ps, playlist_id, current_song_ids) ==
    LET stored_song_ids == get_songs_in_playlist(sg, ps, playlist_id)
        current_song_ids_set == Range(current_song_ids)
        songs_to_add == current_song_ids_set \ stored_song_ids
        songs_to_remove == stored_song_ids \ current_song_ids_set
    IN [playlist_songs |->
            {r \in ps \cup {<<playlist_id, t>> : t \in songs_to_add} :
                r[2] \notin songs_to_remove},
        added |-> Cardinality(songs_to_add),
        removed |-> Cardinality(songs_to_remove),
        songs_added |-> songs_to_add,
        songs_removed |-> songs_to_remove]

sync_playlist_songs(sg, ps, playlist_id, current_song_ids) ==
    LET stored_song_ids == get_songs_in_playlist(sg, ps, playlist_id)
        current_song_ids_set == Range(current_song_ids)
        songs_to_add == current_song_ids_set \ stored_song_ids
        songs_to_remove == stored_song_ids \ current_song_ids_set
    IN [playlist_songs |->
            (ps \cup {<<playlist_id, t>> : t \in songs_to_add})
                \ {<<playlist_id, t>> : t \in songs_to_remove},
        added |-> Cardinality(songs_to_add),
        removed |-> Cardinality(songs_to_remove),
        songs_added |-> songs_to_add,
        songs_removed |-> songs_to_remove]

\* db.py:506-511: the three tables after the three DELETEs
\* the PlaylistSong delete keyed on the songs of the playlist, not on its id
delete_playlist_and_relationships_BySong(pls, q, ps, id) ==
    [playlist_songs |-> {r \in ps : ~ \E o \in ps : o[1] = id /\ o[2] = r[2]},
     queue |-> SelectSeq(q, LAMBDA e : e.playlist_id # id),
     playlists |-> [p \in DOMAIN pls \ {id} |-> pls[p]]]

delete_playlist_and_relationships(pls, q, ps, id) ==
    [playlist_songs |-> {r \in ps : r[1] # id},
     queue |-> SelectSeq(q, LAMBDA e : e.playlist_id # id),
     playlists |-> [p \in DOMAIN pls \ {id} |-> pls[p]]]

\* without the branch for an empty list of tracked ids
get_orphaned_playlists_NoEmptyCase(pls, tracked_ids) ==
    {p \in DOMAIN pls : tracked_ids # <<>> /\ p \notin Range(tracked_ids)}

get_orphaned_playlists(pls, tracked_ids) ==
    IF tracked_ids = <<>> THEN DOMAIN pls
    ELSE {p \in DOMAIN pls : p \notin Range(tracked_ids)}

delete_orphaned_playlist_songs(pls, ps) == {r \in ps : r[1] \in DOMAIN pls}

\* the DELETE without effect
delete_orphaned_song_artists_KeepAll(sg, sa) == sa

delete_orphaned_song_artists(sg, sa) == {r \in sa : r[1] \in DOMAIN sg}

get_orphaned_songs(sg, ps) == {t \in DOMAIN sg : ~ \E r \in ps : r[2] = t}

get_orphaned_artists(ar, sa) == {a \in DOMAIN ar : ~ \E r \in sa : r[2] = a}

----------------------------------------------------------------------------
(* The remote service as the facade sees it *)

\* sp.playlist(id) / sp.user_playlists(user): the snapshot of a playlist
Snapshot(p) == [id |-> p, name |-> remote[p].name, snapshot_id |-> remote[p].snapshot_id]

\* spotify.get_playlist_songs: the items of all pages, without the stubs
get_playlist_songs(p) ==
    SelectSeq(RemoteItems(remote[p].snapshot_id),
              LAMBDA tr : tr.id # None /\ tr.name # None)

\* sp.artist(id) / one entry of sp.artists(ids): artist metadata drifts with time
ArtistInfo(a) == [id |-> a, popularity |-> now]

\* process_tracks_with_batched_artists: the unique artist ids of the tracks
BatchArtistIds(tracks) ==
    UNION {Range(tracks[n].artists) : n \in 1..Len(tracks)}

\* what the remote service holds when the first run starts
InitialRemotes ==
    {[p \in PIDs |-> IF p = "p1" THEN [name |-> PlainName, snapshot_id |-> "s1"] ELSE r] :
        r \in {[name |-> PlainName, snapshot_id |-> "s2"],
                [name |-> AutoName, snapshot_id |-> "s1"]}}

\* what one remote call can do: answer, time out (requests ReadTimeout), raise
\* a SpotifyException with the given status, raise another exception whose
\* text names a rate limit, or raise any other exception
HttpErrors == {"401", "403", "404", "429", "500"}
RemoteOutcomes == {"ok", "timeout", "rate_msg", "error"} \cup HttpErrors

\* the functions decorated with @retry_on_timeout (spotify.py:208-364)
Validators == {"validate_playlist_id", "validate_user_id"}
Facade == {"get_user_playlists", "get_id_playlist", "get_playlist_songs", "get_artist_info",
           "validate_user_playlists_accessible"} \cup Validators

\* spotify.py:113-137
handle_spotify_exception(status) ==
    IF status = "404" THEN [valid |-> FALSE, accessible |-> FALSE]
    ELSE IF status = "403" THEN [valid |-> TRUE, accessible |-> FALSE]
    ELSE IF status = "401" THEN [valid |-> FALSE, accessible |-> FALSE]
    ELSE [valid |-> FALSE, accessible |-> FALSE]

\* spotify.py:146-165
check_for_rate_limit_error(outcome) == outcome \in {"rate_msg", "429"}

Return(value) == [kind |-> "return", value |-> value, error |-> None]
RaiseError(outcome) == [kind |-> "raise", value |-> [valid |-> FALSE, accessible |-> FALSE],
                        error |-> outcome]

\* the body of a decorated function on one outcome of its remote call: the
\* validators turn every exception into a response (spotify.py:315-325,
\* 350-358, 370-387), the fetches let it out (spotify.py:209-259)
FacadeBody(func, outcome) ==
    IF func \in Validators
    THEN IF outcome = "ok" THEN Return([valid |-> TRUE, accessible |-> TRUE])
         ELSE IF outcome \in HttpErrors THEN Return(handle_spotify_exception(outcome))
         ELSE Return([valid |-> FALSE, accessible |-> FALSE])
    ELSE IF func = "validate_user_playlists_accessible"
    THEN Return([valid |-> TRUE, accessible |-> outcome = "ok"])
    ELSE IF outcome = "ok" THEN Return([valid |-> TRUE, accessible |-> TRUE])
    ELSE RaiseError(outcome)

ValidationResults == {"ok", "invalid", "inaccessible"}

NoResult == [added |-> 0, removed |-> 0, songs_added |-> {}, songs_removed |-> {}]

NoCur == [playlist_id |-> None, playlist_name |-> <<>>, val |-> None, outcome |-> None,
          current_song_ids |-> <<>>, new_tracks |-> <<>>, artist_data |-> EmptyTable,
          ti |-> 0, ai |-> 0, sync_result |-> NoResult, fetched |-> <<>>]

NoHist == <<>>

----------------------------------------------------------------------------
(* sync.py: the main pass *)

Init ==
    /\ playlists = EmptyTable
    /\ queue = <<>>
    /\ action_log = <<>>
    /\ songs = EmptyTable
    /\ artists = EmptyTable
    /\ playlist_songs = {}
    /\ song_artists = {}
    /\ remote \in InitialRemotes
    /\ now = 0
    /\ pc = "idle"
    /\ tracked = <<>>
    /\ modified = <<>>
    /\ idx = 0
    /\ worklist = <<>>
    /\ cur = NoCur
    /\ failures = 0
    /\ pre = EmptyTable
    /\ hist = NoHist
    /\ request_times = <<>>
    /\ stage_failed = {}
    /\ rate_limit_lock = None
    /\ failed_targets = {}
    /\ session_connection = None

\* Between two runs the owner edits one playlist on the remote service.
RemoteChange ==
    /\ pc \in {"idle", "exit_0"}
    /\ now >= 1
    /\ now < MaxPasses
    /\ \E p \in PIDs, r \in [name : Names, snapshot_id : Snaps] :
        /\ r # remote[p]
        /\ remote' = [remote EXCEPT ![p] = r]
    /\ pc' = "edited"
    /\ UNCHANGED <<store, now, locals, failures, pre, hist, request_times, extras>>

\* sync.py:21-22, 449-457: a run starts; its session is opened
SessionStart ==
    /\ pc \in {"idle", "edited", "exit_0", "exit_1", "crashed"}
    /\ now < MaxPasses
    /\ now' = now + 1
    /\ action_log' = log_action(action_log, "SYNC_SESSION_START", None, <<>>, TRUE, now')
    /\ pc' = "get_playlists"
    /\ tracked' = <<>>
    /\ modified' = <<>>
    /\ idx' = 0
    /\ worklist' = <<>>
    /\ cur' = NoCur
    /\ session_connection' = "connection"
    /\ failed_targets' = {}
    /\ UNCHANGED <<playlists, queue, songs, artists, playlist_songs, song_artists,
                   remote, failures, pre, hist, request_times, stage_failed, rate_limit_lock>>

\* the run without a playlist ends as after a rate-limit signal
NoPlaylistsExit_One == "exit_1"

\* sync.py:86-88: exit(0)
NoPlaylistsExit == "exit_0"

\* sync.py:27-89: the targets that validate and fetch, in configuration order;
\* with none the run exits (sync.py:88) through the finally block (sync.py:512-514)
GetPlaylistsToTrack ==
    /\ pc = "get_playlists"
    /\ \E n \in 0..MaxTracked : \E ids \in [1..n -> PIDs] :
        /\ tracked' = [a \in 1..n |-> Snapshot(ids[a])]
        /\ pc' = IF n = 0 THEN NoPlaylistsExit ELSE "up_start"
        /\ session_connection' = IF n = 0 THEN None ELSE session_connection
    /\ UNCHANGED <<store, remote, now, modified, idx, worklist, cur, failures, pre, hist,
                   request_times, stage_failed, rate_limit_lock, failed_targets>>

\* sync.py:34-60, 63-84: one configured target is skipped, because its
\* validation answers invalid or inaccessible (sync.py:38-49, 67-73) or its
\* fetch raises (sync.py:59, 83), and the other targets are fetched; `failed`
\* is a playlist of the skipped target
GP_TargetFailed ==
    /\ pc = "get_playlists"
    /\ failures < MaxFailures
    /\ failures' = failures + 1
    /\ \E failed \in PIDs, n \in 0..MaxTracked : \E ids \in [1..n -> PIDs \ {failed}] :
        /\ tracked' = [a \in 1..n |-> Snapshot(ids[a])]
        /\ failed_targets' = {failed}
        /\ pc' = IF n = 0 THEN NoPlaylistsExit ELSE "up_start"
        /\ session_connection' = IF n = 0 THEN None ELSE session_connection
    /\ UNCHANGED <<store, remote, now, modified, idx, worklist, cur, pre, hist,
                   request_times, stage_failed, rate_limit_lock>>

\* the upsert loop of sync.py:154-156 runs before the classification
UP_GetModified_UpsertFirst ==
    /\ pc = "up_start"
    /\ pre' = playlists
    /\ modified' = get_modified_playlists(playlists, tracked)
    /\ idx' = 1
    /\ playlists' = [p \in DOMAIN playlists \cup {tracked[n].id : n \in 1..Len(tracked)} |->
                        IF \E n \in 1..Len(tracked) : tracked[n].id = p
                        THEN [name |-> remote[p].name, snapshot_id |-> remote[p].snapshot_id]
                        ELSE playlists[p]]
    /\ IF modified' # <<>>
       THEN /\ pc' = "up_classify"
            /\ UNCHANGED action_log
       ELSE /\ pc' = "up_upsert"
            /\ action_log' = log_action(action_log, "CHECK_COMPLETE", None, <<>>, TRUE, now)
    /\ UNCHANGED <<queue, songs, artists, playlist_songs, song_artists,
                   remote, now, tracked, worklist, cur, failures, hist, request_times, extras>>

\* sync.py:91-95, 142-152
UP_GetModified ==
    /\ pc = "up_start"
    /\ pre' = playlists
    /\ modified' = get_modified_playlists(playlists, tracked)
    /\ idx' = 1
    /\ IF modified' # <<>>
       THEN /\ pc' = "up_classify"
            /\ UNCHANGED action_log
       ELSE /\ pc' = "up_upsert"
            /\ action_log' = log_action(action_log, "CHECK_COMPLETE", None, <<>>, TRUE, now)
    /\ UNCHANGED <<playlists, queue, songs, artists, playlist_songs, song_artists,
                   remote, now, tracked, worklist, cur, failures, hist, request_times, extras>>

\* sync.py:97-141: one iteration of the loop over modified_playlists
UP_Classify ==
    /\ pc = "up_classify"
    /\ LET playlist == modified[idx]
           old_snapshot == get_playlist_snapshot_id(playlists, playlist.id)
           new_snapshot == playlist.snapshot_id
       IN IF HasAutoMarker(playlist.name)
          THEN /\ action_log' = log_action(action_log, "SKIP", playlist.id, <<>>, TRUE, now)
               /\ UNCHANGED queue
          ELSE IF old_snapshot = None
          THEN /\ queue' = insert_playlist_change(queue, playlist.id, playlist.name, "NEW",
                                                  None, new_snapshot, now)
               /\ action_log' = log_action(action_log, "ADD_TO_QUEUE", playlist.id, <<>>,
                                           TRUE, now)
          ELSE /\ queue' = insert_playlist_change(queue, playlist.id, playlist.name, "MODIFIED",
                                                  old_snapshot, new_snapshot, now)
               /\ action_log' = log_action(action_log, "ADD_TO_QUEUE", playlist.id, <<>>,
                                           TRUE, now)
    /\ IF idx < Len(modified)
       THEN idx' = idx + 1 /\ pc' = "up_classify"
       ELSE idx' = 1 /\ pc' = "up_upsert"
    /\ UNCHANGED <<playlists, songs, artists, playlist_songs, song_artists,
                   remote, now, tracked, modified, worklist, cur, failures, pre, hist, request_times, extras>>

\* sync.py:489-508: an exception that leaves update_playlists reaches the
\* handlers of the run, which raise it again; the finally block closes the
\* session (sync.py:512-514) and the process ends
Crash ==
    /\ failures < MaxFailures
    /\ failures' = failures + 1
    /\ pc' = "crashed"
    /\ session_connection' = None
    /\ UNCHANGED <<store, remote, now, locals, pre, hist, request_times,
                   stage_failed, rate_limit_lock, failed_targets>>

\* sync.py:97-141: classifying or enqueueing one playlist raises (a name that
\* is null at sync.py:103, a store error); the loop has no handler
UP_ClassifyFail ==
    /\ pc = "up_classify"
    /\ Crash

\* sync.py:155-156: upserting one playlist raises (db.py:244 int(None) for a
\* playlist whose `public` is null, a store error); the loop has no handler
UP_UpsertFail ==
    /\ pc = "up_upsert"
    /\ Crash

\* sync.py:154-156: one iteration of the upsert loop
UP_Upsert ==
    /\ pc = "up_upsert"
    /\ playlists' = insert_playlist(playlists, tracked[idx])
    /\ IF idx < Len(tracked)
       THEN idx' = idx + 1 /\ pc' = "up_upsert"
       ELSE idx' = 0 /\ pc' = "us_start"
    /\ UNCHANGED <<queue, action_log, songs, artists, playlist_songs, song_artists,
                   remote, now, tracked, modified, worklist, cur, failures, pre, hist, request_times, extras>>

----------------------------------------------------------------------------
(* sync.py:158-290: update_songs *)

\* the loop moves to the next queued row, or update_songs returns
NextQueued ==
    /\ cur' = NoCur
    /\ IF idx < Len(worklist)
       THEN idx' = idx + 1 /\ pc' = "us_validate" /\ UNCHANGED worklist
       ELSE idx' = 0 /\ pc' = "co_playlists" /\ UNCHANGED worklist

\* sync.py:159
US_GetQueue ==
    /\ pc = "us_start"
    /\ \E rows \in get_queue(queue) :
        /\ worklist' = rows
        /\ IF rows = <<>>
           THEN idx' = 0 /\ pc' = "co_playlists"
           ELSE idx' = 1 /\ pc' = "us_validate"
    /\ cur' = NoCur
    /\ UNCHANGED <<store, remote, now, tracked, modified, failures, pre, hist, request_times, extras>>

\* sync.py:169, 184: how update_songs reads the validation response
ValidationResult(response) ==
    IF ~ response.valid THEN "invalid"
    ELSE IF ~ response.accessible THEN "inaccessible"
    ELSE "ok"

\* sync.py:161-167: spotify.validate_playlist_id answers from what its remote
\* call does at the moment
US_Validate ==
    /\ pc = "us_validate"
    /\ \E outcome \in RemoteOutcomes :
        LET v == ValidationResult(FacadeBody("validate_playlist_id", outcome).value)
        IN /\ cur' = [NoCur EXCEPT !.playlist_id = worklist[idx].playlist_id,
                                   !.playlist_name = worklist[idx].playlist_name,
                                   !.val = v, !.outcome = outcome]
           /\ pc' = IF v = "ok" THEN "us_sync_start" ELSE "us_remove_log"
    /\ UNCHANGED <<store, remote, now, tracked, modified, idx, worklist, failures, pre, hist, request_times, extras>>

\* sync.py:169-179, 184-194
US_RemoveLog ==
    /\ pc = "us_remove_log"
    /\ action_log' = log_action(action_log, "REMOVE_FROM_QUEUE", cur.playlist_id, <<>>, TRUE, now)
    /\ pc' = "us_remove_delete"
    /\ UNCHANGED <<playlists, queue, songs, artists, playlist_songs, song_artists,
                   remote, now, locals, failures, pre, hist, request_times, extras>>

\* the removal drops the playlist with its rows, as the orphan sweep does
US_RemoveDelete_DropPlaylist ==
    /\ pc = "us_remove_delete"
    /\ LET after == delete_playlist_and_relationships(playlists, queue, playlist_songs,
                                                       cur.playlist_id)
       IN /\ queue' = after.queue
          /\ playlists' = after.playlists
          /\ playlist_songs' = after.playlist_songs
    /\ NextQueued
    /\ UNCHANGED <<action_log, songs, artists, song_artists,
                   remote, now, tracked, modified, failures, pre, hist, request_times, extras>>

\* sync.py:180-182, 195-197
US_RemoveDelete ==
    /\ pc = "us_remove_delete"
    /\ queue' = delete_queue(queue, cur.playlist_id)
    /\ NextQueued
    /\ UNCHANGED <<playlists, action_log, songs, artists, playlist_songs, song_artists,
                   remote, now, tracked, modified, failures, pre, hist, request_times, extras>>

\* sync.py:199-207
US_SyncStart ==
    /\ pc = "us_sync_start"
    /\ action_log' = log_action(action_log, "SYNC_START", cur.playlist_id, <<>>, TRUE, now)
    /\ pc' = "us_fetch"
    /\ UNCHANGED <<playlists, queue, songs, artists, playlist_songs, song_artists,
                   remote, now, locals, failures, pre, hist, request_times, extras>>

\* sync.py:214-228: the tracks kept, and those with no Song row
ValidTracks(tracks) == SelectSeq(tracks, LAMBDA tr : tr.id # None /\ tr.name # None)

TrackIds(tracks) == [n \in 1..Len(tracks) |-> tracks[n].id]

NewTracks(sg, tracks) == SelectSeq(tracks, LAMBDA tr : get_song_by_id(sg, tr.id) = <<>>)

\* sync.py:210-228
US_Fetch ==
    /\ pc = "us_fetch"
    /\ LET tracks == ValidTracks(get_playlist_songs(cur.playlist_id))
       IN /\ cur' = [cur EXCEPT !.current_song_ids = TrackIds(tracks),
                                !.new_tracks = NewTracks(songs, tracks),
                                !.ti = 1, !.ai = 1]
          /\ pc' = IF NewTracks(songs, tracks) # <<>> THEN "us_batch" ELSE "us_sync"
    /\ UNCHANGED <<store, remote, now, tracked, modified, idx, worklist, failures, pre, hist, request_times, extras>>

\* a remote call or a store write of the try block raises (sync.py:278)
Raise ==
    /\ failures < MaxFailures
    /\ failures' = failures + 1
    /\ pc' = "us_failed"

\* sync.py:241-242: the artist the inner loop is at
CurArtistId == cur.new_tracks[cur.ti].artists[cur.ai]

\* spotify.py:146-165 under sync.py:278 and 489-508: a remote call of the
\* pass raises an explicit rate-limit signal where no handler of the facade
\* catches it; check_for_rate_limit_error calls exit(1), and the SystemExit
\* passes every `except Exception` on its way out
RateLimitExit ==
    /\ failures < MaxFailures
    /\ failures' = failures + 1
    /\ \E outcome \in {o \in RemoteOutcomes : check_for_rate_limit_error(o)} :
          cur' = [cur EXCEPT !.outcome = outcome]
    /\ pc' = "exit_1"
    /\ session_connection' = None
    /\ UNCHANGED <<store, remote, now, tracked, modified, idx, worklist, pre, hist,
                   request_times, stage_failed, rate_limit_lock, failed_targets>>

\* sync.py:55, 79: get_user_playlists or get_id_playlist is rate-limited
GP_RateLimited ==
    /\ pc = "get_playlists"
    /\ RateLimitExit

\* sync.py:210: get_playlist_songs is rate-limited
US_FetchRateLimited ==
    /\ pc = "us_fetch"
    /\ RateLimitExit

\* sync.py:232, 248: the batched or the individual artist fetch is rate-limited
US_ArtistsRateLimited ==
    /\ \/ pc = "us_batch"
       \/ pc = "us_insert_artist" /\ CurArtistId \notin DOMAIN cur.artist_data
    /\ RateLimitExit

\* sync.py:210: the track fetch raises
US_FetchFail ==
    /\ pc = "us_fetch"
    /\ Raise
    /\ UNCHANGED <<store, remote, now, locals, pre, hist, request_times, extras>>

\* sync.py:230-232: the batch answers for some of the ids (spotify.py:278-280)
US_Batch ==
    /\ pc = "us_batch"
    /\ \E found \in SUBSET BatchArtistIds(cur.new_tracks) :
        cur' = [cur EXCEPT !.artist_data = [a \in found |-> ArtistInfo(a)]]
    /\ pc' = "us_insert_song"
    /\ UNCHANGED <<store, remote, now, tracked, modified, idx, worklist, failures, pre, hist, request_times, extras>>

\* sync.py:232: the batched artist fetch raises
US_BatchFail ==
    /\ pc = "us_batch"
    /\ Raise
    /\ UNCHANGED <<store, remote, now, locals, pre, hist, request_times, extras>>

\* the inner loops move on: next artist, next new track, or the membership sync
AfterArtists(c) ==
    IF c.ti < Len(c.new_tracks)
    THEN /\ cur' = [c EXCEPT !.ti = c.ti + 1, !.ai = 1]
         /\ pc' = "us_insert_song"
    ELSE /\ cur' = [c EXCEPT !.ti = 0, !.ai = 0]
         /\ pc' = "us_sync"

\* sync.py:234-236
US_InsertSong ==
    /\ pc = "us_insert_song"
    /\ songs' = insert_song(songs, cur.new_tracks[cur.ti], now)
    /\ IF cur.new_tracks[cur.ti].artists = <<>>
       THEN AfterArtists(cur)
       ELSE pc' = "us_insert_artist" /\ cur' = [cur EXCEPT !.ai = 1]
    /\ UNCHANGED <<playlists, queue, action_log, artists, playlist_songs, song_artists,
                   remote, now, tracked, modified, idx, worklist, failures, pre, hist, request_times, extras>>

\* the batch result is never consulted
InBatch_Never(artist_data, artist_id) == FALSE

\* sync.py:243  artist_id in artist_data
InBatch(artist_data, artist_id) == artist_id \in DOMAIN artist_data

\* sync.py:239-249: from the batch result, else fetched individually;
\* cur.fetched lists the calls of spotify.get_artist_info of this iteration
US_InsertArtist ==
    /\ pc = "us_insert_artist"
    /\ LET artist_id == CurArtistId
       IN IF InBatch(cur.artist_data, artist_id)
          THEN /\ artists' = insert_artist(artists, cur.artist_data[artist_id])
               /\ UNCHANGED cur
          ELSE /\ artists' = insert_artist(artists, ArtistInfo(artist_id))
               /\ cur' = [cur EXCEPT !.fetched = Append(cur.fetched, artist_id)]
    /\ pc' = "us_insert_song_artist"
    /\ UNCHANGED <<playlists, queue, action_log, songs, playlist_songs, song_artists,
                   remote, now, tracked, modified, idx, worklist, failures, pre, hist,
                   request_times, extras>>

\* sync.py:248: the individual artist fetch raises
US_ArtistFail ==
    /\ pc = "us_insert_artist"
    /\ CurArtistId \notin DOMAIN cur.artist_data
    /\ Raise
    /\ UNCHANGED <<store, remote, now, locals, pre, hist, request_times, extras>>

\* sync.py:251
US_InsertSongArtist ==
    /\ pc = "us_insert_song_artist"
    /\ song_artists' = insert_song_artist(song_artists, cur.new_tracks[cur.ti].id, CurArtistId)
    /\ IF cur.ai < Len(cur.new_tracks[cur.ti].artists)
       THEN pc' = "us_insert_artist" /\ cur' = [cur EXCEPT !.ai = cur.ai + 1]
       ELSE AfterArtists(cur)
    /\ UNCHANGED <<playlists, queue, action_log, songs, artists, playlist_songs,
                   remote, now, tracked, modified, idx, worklist, failures, pre, hist, request_times, extras>>

\* sync.py:253
US_Sync ==
    /\ pc = "us_sync"
    /\ LET r == sync_playlist_songs(songs, playlist_songs, cur.playlist_id, cur.current_song_ids)
       IN /\ playlist_songs' = r.playlist_songs
          /\ cur' = [cur EXCEPT !.sync_result =
                        [added |-> r.added, removed |-> r.removed,
                         songs_added |-> r.songs_added, songs_removed |-> r.songs_removed]]
    /\ pc' = "us_log_complete"
    /\ UNCHANGED <<playlists, queue, action_log, songs, artists, song_artists,
                   remote, now, tracked, modified, idx, worklist, failures, pre, hist, request_times, extras>>

\* db.py:443-450: a statement of sync_playlist_songs raises; the inserts before
\* it (in the set's iteration order), then the deletes before it, are committed
US_SyncFail ==
    /\ pc = "us_sync"
    /\ LET r == sync_playlist_songs(songs, playlist_songs, cur.playlist_id, cur.current_song_ids)
       IN \E done_add \in SUBSET r.songs_added, done_remove \in SUBSET r.songs_removed :
            /\ done_add # r.songs_added => done_remove = {}
            /\ \/ done_add # r.songs_added
               \/ done_remove # r.songs_removed
               \/ r.songs_added = {} /\ r.songs_removed = {}
            /\ playlist_songs' =
                 (playlist_songs \cup {<<cur.playlist_id, t>> : t \in done_add})
                     \ {<<cur.playlist_id, t>> : t \in done_remove}
    /\ Raise
    /\ UNCHANGED <<playlists, queue, action_log, songs, artists, song_artists,
                   remote, now, locals, pre, hist, request_times, extras>>

\* sync.py:264-272
US_LogComplete ==
    /\ pc = "us_log_complete"
    /\ action_log' = log_action(action_log, "SYNC_COMPLETE", cur.playlist_id,
                                <<cur.sync_result.added, cur.sync_result.removed>>, TRUE, now)
    /\ pc' = "us_delete_queue"
    /\ UNCHANGED <<playlists, queue, songs, artists, playlist_songs, song_artists,
                   remote, now, locals, failures, pre, hist, request_times, extras>>

\* sync.py:274-276
US_DeleteQueue ==
    /\ pc = "us_delete_queue"
    /\ queue' = delete_queue(queue, cur.playlist_id)
    /\ NextQueued
    /\ UNCHANGED <<playlists, action_log, songs, artists, playlist_songs, song_artists,
                   remote, now, tracked, modified, failures, pre, hist, request_times, extras>>

\* the handler ends the loop (break) instead of going on (continue)
US_LogFailed_Break ==
    /\ pc = "us_failed"
    /\ action_log' = log_action(action_log, "SYNC_FAILED", cur.playlist_id, <<>>, FALSE, now)
    /\ cur' = NoCur
    /\ idx' = 0
    /\ pc' = "co_playlists"
    /\ UNCHANGED <<playlists, queue, songs, artists, playlist_songs, song_artists,
                   remote, now, tracked, modified, worklist, failures, pre, hist, request_times, extras>>

\* sync.py:278-290
US_LogFailed ==
    /\ pc = "us_failed"
    /\ action_log' = log_action(action_log, "SYNC_FAILED", cur.playlist_id, <<>>, FALSE, now)
    /\ NextQueued
    /\ UNCHANGED <<playlists, queue, songs, artists, playlist_songs, song_artists,
                   remote, now, tracked, modified, failures, pre, hist, request_times, extras>>

----------------------------------------------------------------------------
(* sync.py:292-444: cleanup_orphaned_data *)

\* sync.py:296
TrackedIds(pls) == [n \in 1..Len(pls) |-> pls[n].id]

\* sync.py:315-329: the loop over the orphaned playlists
RECURSIVE DeleteOrphanedPlaylists(_, _)
DeleteOrphanedPlaylists(tables, orphaned) ==
    IF orphaned = <<>> THEN tables
    ELSE DeleteOrphanedPlaylists(
             delete_playlist_and_relationships(tables.playlists, tables.queue,
                                               tables.playlist_songs, Head(orphaned)),
             Tail(orphaned))

\* sync.py:307-335
CO_Playlists ==
    /\ pc = "co_playlists"
    /\ LET orphaned_playlists == get_orphaned_playlists(playlists, TrackedIds(tracked))
           after == DeleteOrphanedPlaylists(
                        [playlist_songs |-> playlist_songs, queue |-> queue,
                         playlists |-> playlists],
                        SeqOfSet(orphaned_playlists))
       IN /\ playlists' = after.playlists
          /\ queue' = after.queue
          /\ playlist_songs' = after.playlist_songs
    /\ pc' = "co_playlist_songs"
    /\ UNCHANGED <<action_log, songs, artists, song_artists,
                   remote, now, locals, failures, pre, hist, request_times, extras>>

\* sync.py:337-345
CO_PlaylistSongs ==
    /\ pc = "co_playlist_songs"
    /\ playlist_songs' = delete_orphaned_playlist_songs(playlists, playlist_songs)
    /\ pc' = "co_songs"
    /\ UNCHANGED <<playlists, queue, action_log, songs, artists, song_artists,
                   remote, now, locals, failures, pre, hist, request_times, extras>>

\* sync.py:347-368
CO_Songs ==
    /\ pc = "co_songs"
    /\ LET orphaned_songs == get_orphaned_songs(songs, playlist_songs)
       IN songs' = [t \in DOMAIN songs \ orphaned_songs |-> songs[t]]
    /\ pc' = "co_song_artists"
    /\ UNCHANGED <<playlists, queue, action_log, artists, playlist_songs, song_artists,
                   remote, now, locals, failures, pre, hist, request_times, extras>>

\* sync.py:370-378
CO_SongArtists ==
    /\ pc = "co_song_artists"
    /\ song_artists' = delete_orphaned_song_artists(songs, song_artists)
    /\ pc' = "co_artists"
    /\ UNCHANGED <<playlists, queue, action_log, songs, artists, playlist_songs,
                   remote, now, locals, failures, pre, hist, request_times, extras>>

\* sync.py:380-401
CO_Artists ==
    /\ pc = "co_artists"
    /\ LET orphaned_artists == get_orphaned_artists(artists, song_artists)
       IN artists' = [a \in DOMAIN artists \ orphaned_artists |-> artists[a]]
    /\ pc' = "co_done"
    /\ UNCHANGED <<playlists, queue, action_log, songs, playlist_songs, song_artists,
                   remote, now, locals, failures, pre, hist, request_times, extras>>

\* db.py:506-511: each DELETE commits on its own (db.py:42-46); the call
\* raises when `done` of the three have been committed
delete_playlist_and_relationships_raising(pls, q, ps, id, done) ==
    [playlist_songs |-> IF done >= 1 THEN {r \in ps : r[1] # id} ELSE ps,
     queue |-> IF done >= 2 THEN SelectSeq(q, LAMBDA e : e.playlist_id # id) ELSE q,
     playlists |-> pls]

\* the loop stops at the playlist whose deletion raises
RECURSIVE DeleteOrphanedPlaylistsUntilFailure(_, _, _, _)
DeleteOrphanedPlaylistsUntilFailure(tables, orphaned, failing, done) ==
    IF orphaned = <<>> THEN tables
    ELSE IF Head(orphaned) = failing
    THEN delete_playlist_and_relationships_raising(tables.playlists, tables.queue,
                                                   tables.playlist_songs, failing, done)
    ELSE DeleteOrphanedPlaylistsUntilFailure(
             delete_playlist_and_relationships(tables.playlists, tables.queue,
                                               tables.playlist_songs, Head(orphaned)),
             Tail(orphaned), failing, done)

\* sync.py:315-329: the loop over the orphaned playlists when the deletion of
\* `failing` raises; the handler of sync.py:328 logs it and the loop goes on
RECURSIVE DeleteOrphanedPlaylistsWithFailure(_, _, _, _)
DeleteOrphanedPlaylistsWithFailure(tables, orphaned, failing, done) ==
    IF orphaned = <<>> THEN tables
    ELSE DeleteOrphanedPlaylistsWithFailure(
             IF Head(orphaned) = failing
             THEN delete_playlist_and_relationships_raising(
                      tables.playlists, tables.queue, tables.playlist_songs, failing, done)
             ELSE delete_playlist_and_relationships(
                      tables.playlists, tables.queue, tables.playlist_songs, Head(orphaned)),
             Tail(orphaned), failing, done)

\* the names of the five stages, as cleanup_stats keys them (sync.py:299-305)
Stages == <<"orphaned_playlists", "orphaned_playlist_songs", "orphaned_songs",
            "orphaned_song_artists", "orphaned_artists">>

\* sync.py:328, 334, 344, 361, 367, 377, 394, 400: a store call of a stage
\* raises and a handler of the stage logs the error
StageFails(stage, item) ==
    /\ failures < MaxFailures
    /\ failures' = failures + 1
    /\ stage_failed' = stage_failed \cup {<<stage, item>>}

\* the stages of the running sweep in which a handler logged an error
FailedStages == {f[1] : f \in stage_failed}

\* sync.py:307-335: the query raises (handler of sync.py:334), or the deletion
\* of one orphaned playlist raises (handler of sync.py:328)
CO_PlaylistsFail ==
    /\ pc = "co_playlists"
    /\ LET orphaned_playlists == get_orphaned_playlists(playlists, TrackedIds(tracked))
       IN \/ /\ StageFails(Stages[1], None)
             /\ UNCHANGED <<playlists, queue, playlist_songs>>
          \/ \E failing \in orphaned_playlists, done \in 0..2 :
               /\ StageFails(Stages[1], failing)
               /\ LET after == DeleteOrphanedPlaylistsWithFailure(
                                   [playlist_songs |-> playlist_songs, queue |-> queue,
                                    playlists |-> playlists],
                                   SeqOfSet(orphaned_playlists), failing, done)
                  IN /\ playlists' = after.playlists
                     /\ queue' = after.queue
                     /\ playlist_songs' = after.playlist_songs
    /\ pc' = "co_playlist_songs"
    /\ UNCHANGED <<action_log, songs, artists, song_artists, remote, now, locals, pre, hist,
                   request_times, rate_limit_lock, session_connection, failed_targets>>

\* sync.py:337-345: the DELETE raises (handler of sync.py:344)
CO_PlaylistSongsFail ==
    /\ pc = "co_playlist_songs"
    /\ StageFails(Stages[2], None)
    /\ pc' = "co_songs"
    /\ UNCHANGED <<store, remote, now, locals, pre, hist,
                   request_times, rate_limit_lock, session_connection, failed_targets>>

\* sync.py:347-368: the query raises (handler of sync.py:367), or delete_song
\* of one orphaned song raises (handler of sync.py:361)
CO_SongsFail ==
    /\ pc = "co_songs"
    /\ LET orphaned_songs == get_orphaned_songs(songs, playlist_songs)
       IN \/ StageFails(Stages[3], None) /\ UNCHANGED songs
          \/ \E failing \in orphaned_songs :
               /\ StageFails(Stages[3], failing)
               /\ songs' = [t \in DOMAIN songs \ (orphaned_songs \ {failing}) |-> songs[t]]
    /\ pc' = "co_song_artists"
    /\ UNCHANGED <<playlists, queue, action_log, artists, playlist_songs, song_artists,
                   remote, now, locals, pre, hist,
                   request_times, rate_limit_lock, session_connection, failed_targets>>

\* sync.py:370-378: the DELETE raises (handler of sync.py:377)
CO_SongArtistsFail ==
    /\ pc = "co_song_artists"
    /\ StageFails(Stages[4], None)
    /\ pc' = "co_artists"
    /\ UNCHANGED <<store, remote, now, locals, pre, hist,
                   request_times, rate_limit_lock, session_connection, failed_targets>>

\* sync.py:380-401: the query raises (handler of sync.py:400), or
\* delete_artist of one orphaned artist raises (handler of sync.py:394)
CO_ArtistsFail ==
    /\ pc = "co_artists"
    /\ LET orphaned_artists == get_orphaned_artists(artists, song_artists)
       IN \/ StageFails(Stages[5], None) /\ UNCHANGED artists
          \/ \E failing \in orphaned_artists :
               /\ StageFails(Stages[5], failing)
               /\ artists' = [a \in DOMAIN artists \ (orphaned_artists \ {failing}) |-> artists[a]]
    /\ pc' = "co_done"
    /\ UNCHANGED <<playlists, queue, action_log, songs, playlist_songs, song_artists,
                   remote, now, locals, pre, hist,
                   request_times, rate_limit_lock, session_connection, failed_targets>>

\* sync.py:473-484, 512-514: the run ends; the next run starts with fresh locals
SessionComplete ==
    /\ pc = "co_done"
    /\ action_log' = log_action(action_log, "SYNC_SESSION_COMPLETE", None, <<>>, TRUE, now)
    /\ pc' = "idle"
    /\ tracked' = <<>>
    /\ modified' = <<>>
    /\ idx' = 0
    /\ worklist' = <<>>
    /\ cur' = NoCur
    /\ stage_failed' = {}
    /\ session_connection' = None
    /\ UNCHANGED <<playlists, queue, songs, artists, playlist_songs, song_artists,
                   remote, now, failures, pre, hist, request_times, rate_limit_lock,
                   failed_targets>>

Next ==
    \/ RemoteChange
    \/ SessionStart
    \/ GetPlaylistsToTrack
    \/ GP_TargetFailed
    \/ UP_GetModified
    \/ UP_Classify
    \/ UP_Upsert
    \/ UP_ClassifyFail
    \/ UP_UpsertFail
    \/ US_GetQueue
    \/ US_Validate
    \/ US_RemoveLog
    \/ US_RemoveDelete
    \/ US_SyncStart
    \/ US_Fetch
    \/ US_FetchFail
    \/ GP_RateLimited
    \/ US_FetchRateLimited
    \/ US_ArtistsRateLimited
    \/ US_Batch
    \/ US_BatchFail
    \/ US_InsertSong
    \/ US_InsertArtist
    \/ US_ArtistFail
    \/ US_InsertSongArtist
    \/ US_Sync
    \/ US_SyncFail
    \/ US_LogComplete
    \/ US_DeleteQueue
    \/ US_LogFailed
    \/ CO_Playlists
    \/ CO_PlaylistSongs
    \/ CO_Songs
    \/ CO_SongArtists
    \/ CO_Artists
    \/ CO_PlaylistsFail
    \/ CO_PlaylistSongsFail
    \/ CO_SongsFail
    \/ CO_SongArtistsFail
    \/ CO_ArtistsFail
    \/ SessionComplete

Spec == Init /\ [][Next]_vars

----------------------------------------------------------------------------
(* Direct calls of the row store's functions (utils/db.py) on a store as the
   runs leave it: every PlaylistSong row references a Song row. *)

SeqsUpTo(S, n) == UNION {[1..m -> S] : m \in 0..n}

SomeEntry(p) == [playlist_id |-> p, playlist_name |-> PlainName, change_type |-> "NEW",
                 old_snapshot_id |-> None, new_snapshot_id |-> "s1", detected_at |-> 1]

SomeLog == <<[action_type |-> "SYNC_SESSION_START", entity_id |-> None, details |-> <<>>,
              success |-> TRUE, timestamp |-> 1]>>

InitDb ==
    /\ playlists = [p \in PIDs |-> [name |-> PlainName, snapshot_id |-> "s1"]]
    /\ queue \in {[n \in DOMAIN ids |-> SomeEntry(ids[n])] : ids \in SeqsUpTo(PIDs, MaxLen)}
    /\ action_log = SomeLog
    /\ songs \in {[t \in S |-> [popularity |-> 1]] : S \in SUBSET TIDs}
    /\ artists = [a \in {"a1"} |-> [popularity |-> 1]]
    /\ playlist_songs \in SUBSET (PIDs \X DOMAIN songs)
    /\ song_artists = {<<t, "a1">> : t \in DOMAIN songs}
    /\ remote \in InitialRemotes
    /\ remote["p2"].name = AutoName
    /\ now = 1
    /\ pc = "db"
    /\ tracked = <<>>
    /\ modified = <<>>
    /\ idx = 0
    /\ worklist = <<>>
    /\ cur = NoCur
    /\ failures = 0
    /\ pre = EmptyTable
    /\ hist = NoHist
    /\ request_times = <<>>
    /\ stage_failed = {}
    /\ rate_limit_lock = None
    /\ failed_targets = {}
    /\ session_connection = None

\* db.sync_playlist_songs(playlist_id, current_song_ids), the ids having Song rows
DB_SyncPlaylistSongs ==
    /\ pc = "db"
    /\ \E p \in PIDs, ids \in SeqsUpTo(DOMAIN songs, MaxLen) :
        LET r == sync_playlist_songs(songs, playlist_songs, p, ids)
        IN /\ playlist_songs' = r.playlist_songs
           /\ hist' = <<[op |-> "sync_playlist_songs", playlist_id |-> p, ids |-> ids,
                         before |-> store, added |-> r.added, removed |-> r.removed]>>
    /\ pc' = "db_again"
    /\ UNCHANGED <<playlists, queue, action_log, songs, artists, song_artists,
                   remote, now, locals, failures, pre, request_times, extras>>

\* the same call once more
DB_SyncAgain ==
    /\ pc = "db_again"
    /\ LET r == sync_playlist_songs(songs, playlist_songs, hist[1].playlist_id, hist[1].ids)
       IN /\ playlist_songs' = r.playlist_songs
          /\ hist' = Append(hist, [hist[1] EXCEPT !.before = store, !.added = r.added,
                                                   !.removed = r.removed])
    /\ pc' = "db_done"
    /\ UNCHANGED <<playlists, queue, action_log, songs, artists, song_artists,
                   remote, now, locals, failures, pre, request_times, extras>>

\* db.py:442-450: a statement of sync_playlist_songs raises; the inserts made
\* before it, then the deletes made before it, are committed (db.py:42-46)
DB_SyncFail ==
    /\ pc = "db"
    /\ \E p \in PIDs, ids \in SeqsUpTo(DOMAIN songs, MaxLen) :
        LET r == sync_playlist_songs(songs, playlist_songs, p, ids)
        IN \E done_add \in SUBSET r.songs_added, done_remove \in SUBSET r.songs_removed :
            /\ done_add # r.songs_added => done_remove = {}
            /\ \/ done_add # r.songs_added
               \/ done_remove # r.songs_removed
               \/ r.songs_added = {} /\ r.songs_removed = {}
            /\ playlist_songs' =
                 (playlist_songs \cup {<<p, t>> : t \in done_add})
                     \ {<<p, t>> : t \in done_remove}
            /\ hist' = <<[op |-> "sync_playlist_songs raises", playlist_id |-> p,
                          ids |-> ids, before |-> store,
                          added |-> Cardinality(done_add),
                          removed |-> Cardinality(done_remove)]>>
    /\ pc' = "db_done"
    /\ UNCHANGED <<playlists, queue, action_log, songs, artists, song_artists,
                   remote, now, locals, failures, pre, request_times, extras>>

\* db.delete_queue(playlist_id)
DB_DeleteQueue ==
    /\ pc = "db"
    /\ \E p \in PIDs :
        /\ queue' = delete_queue(queue, p)
        /\ hist' = <<[op |-> "delete_queue", playlist_id |-> p, before |-> store]>>
    /\ pc' = "db_done"
    /\ UNCHANGED <<playlists, action_log, songs, artists, playlist_songs, song_artists,
                   remote, now, locals, failures, pre, request_times, extras>>

NextDb ==
    \/ DB_SyncPlaylistSongs
    \/ DB_SyncAgain
    \/ DB_SyncFail
    \/ DB_DeleteQueue

SpecDb == InitDb /\ [][NextDb]_vars

----------------------------------------------------------------------------
(* cleanup_orphaned_data called on any store and any tracked list: the store
   file outlives the runs and no foreign key is enforced (db.py:203-228). *)

SweepTracked == {<<>>, <<"p1">>, <<"p1", "p2">>}
SweepLinks == {<<"t1", "a1">>, <<"t2", "a1">>, <<"t2", "a2">>}

InitSweep ==
    /\ playlists \in {[p \in S |-> [name |-> PlainName, snapshot_id |-> "s1"]] : S \in SUBSET PIDs}
    /\ queue \in {<<>>, <<SomeEntry("p1"), SomeEntry("p2")>>}
    /\ action_log = SomeLog
    /\ songs \in {[t \in S |-> [popularity |-> 1]] : S \in SUBSET {"t1", "t2"}}
    /\ artists \in {[a \in S |-> [popularity |-> 1]] : S \in SUBSET AIDs}
    /\ playlist_songs \in SUBSET (PIDs \X {"t1", "t2"})
    /\ song_artists \in SUBSET SweepLinks
    /\ remote \in InitialRemotes
    /\ remote["p2"].name = AutoName
    /\ now = 1
    /\ pc = "co_playlists"
    /\ tracked \in {[n \in DOMAIN ids |-> Snapshot(ids[n])] : ids \in SweepTracked}
    /\ modified = <<>>
    /\ idx = 0
    /\ worklist = <<>>
    /\ cur = NoCur
    /\ failures = 0
    /\ pre = EmptyTable
    /\ request_times = <<>>
    /\ stage_failed = {}
    /\ rate_limit_lock = None
    /\ failed_targets = {}
    /\ session_connection = None
    /\ hist = <<[op |-> "cleanup_orphaned_data",
                 before |-> <<playlists, queue, action_log, songs, artists,
                              playlist_songs, song_artists>>]>>

\* cleanup_orphaned_data(playlists) is called once more with the same list
CO_Again ==
    /\ pc = "co_done"
    /\ Len(hist) = 1
    /\ hist' = Append(hist, [op |-> "cleanup_orphaned_data", before |-> store])
    /\ pc' = "co_playlists"
    /\ UNCHANGED <<store, remote, now, locals, failures, pre, request_times, extras>>

NextSweep ==
    \/ CO_Playlists
    \/ CO_PlaylistSongs
    \/ CO_Songs
    \/ CO_SongArtists
    \/ CO_Artists
    \/ CO_Again

SpecSweep == InitSweep /\ [][NextSweep]_vars

\* cleanup_orphaned_data called once on such a store, with store calls that
\* may raise
InitSweepFail ==
    /\ InitSweep
    /\ queue # <<>>
    /\ DOMAIN artists = AIDs

\* sync.py:403-440: the summary is logged and the call returns to its caller
CO_Return ==
    /\ pc = "co_done"
    /\ pc' = "co_returned"
    /\ UNCHANGED <<store, remote, now, locals, failures, pre, hist, request_times, extras>>

NextSweepFail ==
    \/ CO_Playlists
    \/ CO_PlaylistSongs
    \/ CO_Songs
    \/ CO_SongArtists
    \/ CO_Artists
    \/ CO_PlaylistsFail
    \/ CO_PlaylistSongsFail
    \/ CO_SongsFail
    \/ CO_SongArtistsFail
    \/ CO_ArtistsFail
    \/ CO_Return

SpecSweepFail == InitSweepFail /\ [][NextSweepFail]_vars

\* ---------------------------------------------------------------------
\* The rate limiter, called directly. Times are in tenths of a second.

\* spotify.py:12 sets 90; the ledger logic is the same for every value, and
\* the runs below use a small one so that the ceiling is reached
REQUESTS_PER_MINUTE == 3
\* the number of calls of one run
MaxCalls == 5

\* spotify.py:24, 27: the 60 seconds of the rolling window
Window == 600
\* spotify.py:28: the 0.1 seconds added to the ceiling sleep
Tenth == 1
\* spotify.py:14
MIN_REQUEST_INTERVAL == Window \div REQUESTS_PER_MINUTE

\* spotify.py:24-25, 35-36: popleft while the oldest entry is older than 60 s
RECURSIVE PopOld(_, _)
PopOld(times, current_time) ==
    IF times # <<>> /\ current_time - Head(times) > Window
    THEN PopOld(Tail(times), current_time)
    ELSE times

\* the ceiling sleep without the added 0.1 s
enforce_rate_limit_NoMargin(times, current_time, late) ==
    LET pruned == PopOld(times, current_time)
        full == Len(pruned) >= REQUESTS_PER_MINUTE
        sleep_time == IF full THEN Window - (current_time - pruned[1]) ELSE 0
        slept == full /\ sleep_time > 0
        time1 == IF slept THEN current_time + sleep_time + late ELSE current_time
        times1 == IF slept THEN PopOld(pruned, time1) ELSE pruned
        short == times1 # <<>> /\ time1 - times1[Len(times1)] < MIN_REQUEST_INTERVAL
        spacing == MIN_REQUEST_INTERVAL - (time1 - times1[Len(times1)])
        time2 == IF short THEN time1 + spacing + late ELSE time1
    IN [request_times |-> Append(times1, time2),
        current_time |-> time2,
        sleeps |-> (IF slept THEN <<sleep_time>> ELSE <<>>)
                      \o (IF short THEN <<spacing>> ELSE <<>>),
        within |-> Len(times1)]

\* the ledger not pruned again after the ceiling sleep
enforce_rate_limit_NoSecondPrune(times, current_time, late) ==
    LET pruned == PopOld(times, current_time)
        full == Len(pruned) >= REQUESTS_PER_MINUTE
        sleep_time == IF full THEN Window - (current_time - pruned[1]) + Tenth ELSE 0
        slept == full /\ sleep_time > 0
        time1 == IF slept THEN current_time + sleep_time + late ELSE current_time
        times1 == pruned
        short == times1 # <<>> /\ time1 - times1[Len(times1)] < MIN_REQUEST_INTERVAL
        spacing == MIN_REQUEST_INTERVAL - (time1 - times1[Len(times1)])
        time2 == IF short THEN time1 + spacing + late ELSE time1
    IN [request_times |-> Append(times1, time2),
        current_time |-> time2,
        sleeps |-> (IF slept THEN <<sleep_time>> ELSE <<>>)
                      \o (IF short THEN <<spacing>> ELSE <<>>),
        within |-> Len(times1)]

\* the spacing measured from the oldest entry of the ledger, not the newest
enforce_rate_limit_SpacingFromOldest(times, current_time, late) ==
    LET pruned == PopOld(times, current_time)
        full == Len(pruned) >= REQUESTS_PER_MINUTE
        sleep_time == IF full THEN Window - (current_time - pruned[1]) + Tenth ELSE 0
        slept == full /\ sleep_time > 0
        time1 == IF slept THEN current_time + sleep_time + late ELSE current_time
        times1 == IF slept THEN PopOld(pruned, time1) ELSE pruned
        short == times1 # <<>> /\ time1 - times1[1] < MIN_REQUEST_INTERVAL
        spacing == MIN_REQUEST_INTERVAL - (time1 - times1[1])
        time2 == IF short THEN time1 + spacing + late ELSE time1
    IN [request_times |-> Append(times1, time2),
        current_time |-> time2,
        sleeps |-> (IF slept THEN <<sleep_time>> ELSE <<>>)
                      \o (IF short THEN <<spacing>> ELSE <<>>),
        within |-> Len(times1)]

\* spotify.py:20-46. current_time is the clock at entry; every sleep advances
\* the clock by the requested duration plus `late`. The result holds the new
\* ledger, the clock at return, the sleeps made, and the number of ledger
\* entries left after the ceiling branch (spotify.py:27-36).
enforce_rate_limit(times, current_time, late) ==
    LET pruned == PopOld(times, current_time)
        full == Len(pruned) >= REQUESTS_PER_MINUTE
        sleep_time == IF full THEN Window - (current_time - pruned[1]) + Tenth ELSE 0
        slept == full /\ sleep_time > 0
        time1 == IF slept THEN current_time + sleep_time + late ELSE current_time
        times1 == IF slept THEN PopOld(pruned, time1) ELSE pruned
        short == times1 # <<>> /\ time1 - times1[Len(times1)] < MIN_REQUEST_INTERVAL
        spacing == MIN_REQUEST_INTERVAL - (time1 - times1[Len(times1)])
        time2 == IF short THEN time1 + spacing + late ELSE time1
    IN [request_times |-> Append(times1, time2),
        current_time |-> time2,
        sleeps |-> (IF slept THEN <<sleep_time>> ELSE <<>>)
                      \o (IF short THEN <<spacing>> ELSE <<>>),
        within |-> Len(times1)]

\* the time between the return of one call and the entry of the next
Delays == {0, Tenth, MIN_REQUEST_INTERVAL, Window - MIN_REQUEST_INTERVAL, Window + Tenth}
\* how much longer than requested a sleep may take
Lates == {0, Tenth}

InitRate ==
    /\ playlists = EmptyTable
    /\ queue = <<>>
    /\ action_log = <<>>
    /\ songs = EmptyTable
    /\ artists = EmptyTable
    /\ playlist_songs = {}
    /\ song_artists = {}
    /\ remote \in InitialRemotes
    /\ remote["p2"].name = AutoName
    /\ now = 0
    /\ pc = "rate"
    /\ tracked = <<>>
    /\ modified = <<>>
    /\ idx = 0
    /\ worklist = <<>>
    /\ cur = NoCur
    /\ failures = 0
    /\ pre = EmptyTable
    /\ hist = NoHist
    /\ request_times = <<>>
    /\ stage_failed = {}
    /\ rate_limit_lock = None
    /\ failed_targets = {}
    /\ session_connection = None

\* one call of _enforce_rate_limit, `delay` after the previous one returned
RL_EnforceRateLimit ==
    /\ pc = "rate"
    /\ Len(hist) < MaxCalls
    /\ \E delay \in Delays, late \in Lates :
        LET r == enforce_rate_limit(request_times, now + delay, late)
        IN /\ request_times' = r.request_times
           /\ now' = r.current_time
           /\ hist' = Append(hist, [op |-> "_enforce_rate_limit", delay |-> delay,
                                    late |-> late, at |-> r.current_time,
                                    sleeps |-> r.sleeps, within |-> r.within])
    /\ UNCHANGED <<store, remote, pc, locals, failures, pre, extras>>

NextRate == RL_EnforceRateLimit

SpecRate == InitRate /\ [][NextRate]_vars

\* ---------------------------------------------------------------------
\* The rate limiter called by several threads. Each thread runs
\* _enforce_rate_limit statement by statement; `cur` holds, per thread, its
\* position and its locals current_time and the end of its running sleep.

Threads == {"th1", "th2"}

\* the time between the previous step of the run and the entry of a thread
ThreadDelays == {0, Window - MIN_REQUEST_INTERVAL}

\* spotify.py:21 `with _rate_limit_lock:` blocks while another thread holds
\* the lock; here the lock that is never held
LockFree_Always(lock) == TRUE

LockFree(lock) == lock = None

ThreadOut == [pc |-> "out", current_time |-> 0, wake |-> 0]

InitRateThreads ==
    /\ playlists = EmptyTable
    /\ queue = <<>>
    /\ action_log = <<>>
    /\ songs = EmptyTable
    /\ artists = EmptyTable
    /\ playlist_songs = {}
    /\ song_artists = {}
    /\ remote \in InitialRemotes
    /\ remote["p2"].name = AutoName
    /\ now = 0
    /\ pc = "threads"
    /\ tracked = <<>>
    /\ modified = <<>>
    /\ idx = 0
    /\ worklist = <<>>
    /\ cur = [t \in Threads |-> ThreadOut]
    /\ failures = 0
    /\ pre = EmptyTable
    /\ hist = NoHist
    /\ request_times = <<>>
    /\ stage_failed = {}
    /\ rate_limit_lock = None
    /\ failed_targets = {}
    /\ session_connection = None

\* the threads that are inside the `with` block
Inside == {t \in Threads : cur[t].pc # "out"}

Sleeping == {t \in Threads : cur[t].pc \in {"sleep_ceiling", "sleep_spacing"}}

ThreadUnchanged ==
    UNCHANGED <<store, remote, pc, tracked, modified, idx, worklist, failures, pre,
                stage_failed, session_connection, failed_targets>>

\* spotify.py:21: some time after the previous step of the run, the thread
\* enters the `with` block
TH_Acquire(t) ==
    /\ cur[t].pc = "out"
    /\ Len(hist) + Cardinality(Inside) < MaxCalls
    /\ LockFree(rate_limit_lock)
    /\ rate_limit_lock' = t
    /\ cur' = [cur EXCEPT ![t].pc = "locked"]
    /\ \E delay \in ThreadDelays : now' = now + delay
    /\ UNCHANGED <<hist, request_times>>
    /\ ThreadUnchanged

\* spotify.py:22-25
TH_ReadAndPrune(t) ==
    /\ cur[t].pc = "locked"
    /\ request_times' = PopOld(request_times, now)
    /\ cur' = [cur EXCEPT ![t].pc = "ceiling", ![t].current_time = now]
    /\ UNCHANGED <<now, hist, rate_limit_lock>>
    /\ ThreadUnchanged

\* spotify.py:27-33: the ceiling check; time.sleep is entered
TH_Ceiling(t) ==
    /\ cur[t].pc = "ceiling"
    /\ LET full == Len(request_times) >= REQUESTS_PER_MINUTE
           sleep_time == Window - (cur[t].current_time - request_times[1]) + Tenth
       IN IF full /\ sleep_time > 0
          THEN cur' = [cur EXCEPT ![t].pc = "sleep_ceiling", ![t].wake = now + sleep_time]
          ELSE cur' = [cur EXCEPT ![t].pc = "spacing"]
    /\ UNCHANGED <<now, hist, request_times, rate_limit_lock>>
    /\ ThreadUnchanged

\* spotify.py:33-37: the sleep returns, the clock is read and the ledger pruned
TH_CeilingWake(t) ==
    /\ cur[t].pc = "sleep_ceiling"
    /\ \E late \in Lates :
        /\ now' = (IF now > cur[t].wake THEN now ELSE cur[t].wake) + late
        /\ request_times' = PopOld(request_times, now')
        /\ cur' = [cur EXCEPT ![t].pc = "spacing", ![t].current_time = now']
    /\ UNCHANGED <<hist, rate_limit_lock>>
    /\ ThreadUnchanged

\* spotify.py:39-43: the spacing check; time.sleep is entered
TH_Spacing(t) ==
    /\ cur[t].pc = "spacing"
    /\ LET time_since_last == cur[t].current_time - request_times[Len(request_times)]
       IN IF request_times # <<>> /\ time_since_last < MIN_REQUEST_INTERVAL
          THEN cur' = [cur EXCEPT ![t].pc = "sleep_spacing",
                                  ![t].wake = now + (MIN_REQUEST_INTERVAL - time_since_last)]
          ELSE cur' = [cur EXCEPT ![t].pc = "append"]
    /\ UNCHANGED <<now, hist, request_times, rate_limit_lock>>
    /\ ThreadUnchanged

\* spotify.py:43-44: the sleep returns and the clock is read
TH_SpacingWake(t) ==
    /\ cur[t].pc = "sleep_spacing"
    /\ \E late \in Lates :
        /\ now' = (IF now > cur[t].wake THEN now ELSE cur[t].wake) + late
        /\ cur' = [cur EXCEPT ![t].pc = "append", ![t].current_time = now']
    /\ UNCHANGED <<hist, request_times, rate_limit_lock>>
    /\ ThreadUnchanged

\* spotify.py:46
TH_Append(t) ==
    /\ cur[t].pc = "append"
    /\ request_times' = Append(request_times, cur[t].current_time)
    /\ hist' = Append(hist, [op |-> "_enforce_rate_limit", thread |-> t,
                             at |-> cur[t].current_time])
    /\ cur' = [cur EXCEPT ![t].pc = "unlock"]
    /\ UNCHANGED <<now, rate_limit_lock>>
    /\ ThreadUnchanged

\* the `with` block is left
TH_Release(t) ==
    /\ cur[t].pc = "unlock"
    /\ rate_limit_lock' = None
    /\ cur' = [cur EXCEPT ![t] = ThreadOut]
    /\ UNCHANGED <<now, hist, request_times>>
    /\ ThreadUnchanged

NextRateThreads ==
    \/ \E t \in Threads : TH_Acquire(t)
    \/ \E t \in Threads : TH_ReadAndPrune(t)
    \/ \E t \in Threads : TH_Ceiling(t)
    \/ \E t \in Threads : TH_CeilingWake(t)
    \/ \E t \in Threads : TH_Spacing(t)
    \/ \E t \in Threads : TH_SpacingWake(t)
    \/ \E t \in Threads : TH_Append(t)
    \/ \E t \in Threads : TH_Release(t)

SpecRateThreads == InitRateThreads /\ [][NextRateThreads]_vars

\* ---------------------------------------------------------------------
\* The batched artist lookup, called directly with a list of unique ids.

\* spotify.py:13 sets 50; the chunking is the same for every size, and the
\* runs below use a small one so that a list takes several calls
BATCH_SIZE == 2
\* the longest list of ids passed
MaxIds == 5

\* the artist ids the lists are made of
BatchArtists == {"a1", "a2", "a3", "a4", "a5", "a6"}

\* the lists of up to MaxIds ids without a repeated id
UniqueLists ==
    {ids \in UNION {[1..n -> BatchArtists] : n \in 0..MaxIds} :
        \A a, b \in DOMAIN ids : a # b => ids[a] # ids[b]}

\* the slice with one id more than the batch size
Batch_OneMore(artist_ids, i) ==
    SubSeq(artist_ids, i + 1,
           IF i + BATCH_SIZE + 1 < Len(artist_ids) THEN i + BATCH_SIZE + 1 ELSE Len(artist_ids))

\* spotify.py:271: artist_ids[i : i + _BATCH_SIZE]
Batch(artist_ids, i) ==
    SubSeq(artist_ids, i + 1,
           IF i + BATCH_SIZE < Len(artist_ids) THEN i + BATCH_SIZE ELSE Len(artist_ids))

\* sp.artists(batch): per requested id the artist object, or null
Responses(batch) == [DOMAIN batch -> BOOLEAN]

\* spotify.py:277-279: the non-null artists of the response, keyed by id
Merge(results, batch, response) ==
    LET found == {batch[n] : n \in {m \in DOMAIN batch : response[m]}}
    IN [a \in DOMAIN results \cup found |->
           IF a \in found THEN ArtistInfo(a) ELSE results[a]]

InitBatch ==
    /\ playlists = EmptyTable
    /\ queue = <<>>
    /\ action_log = <<>>
    /\ songs = EmptyTable
    /\ artists = EmptyTable
    /\ playlist_songs = {}
    /\ song_artists = {}
    /\ remote \in InitialRemotes
    /\ remote["p2"].name = AutoName
    /\ now = 1
    /\ pc = "ba_start"
    /\ tracked = <<>>
    /\ modified = <<>>
    /\ idx = 0
    /\ worklist \in UniqueLists
    /\ cur = [results |-> EmptyTable, artist_batch |-> <<>>]
    /\ failures = 0
    /\ pre = EmptyTable
    /\ hist = NoHist
    /\ request_times = <<>>
    /\ stage_failed = {}
    /\ rate_limit_lock = None
    /\ failed_targets = {}
    /\ session_connection = None

BatchUnchanged ==
    UNCHANGED <<store, remote, now, tracked, modified, worklist, pre, request_times, extras>>

\* spotify.py:266-268, 289-290 and 71-73: a list with ids starts the loop; an
\* empty one goes to process_artist_batch, which returns {} for the empty
\* module-level batch (nothing of the repository fills it)
BA_Start ==
    /\ pc = "ba_start"
    /\ idx' = 0
    /\ pc' = IF worklist # <<>> THEN "ba_call"
             ELSE IF cur.artist_batch = <<>> THEN "ba_done" ELSE "ba_queued"
    /\ UNCHANGED <<cur, hist, failures>>
    /\ BatchUnchanged

\* spotify.py:270-279: one pass of the loop, the call answered
BA_Call ==
    /\ pc = "ba_call"
    /\ LET batch == Batch(worklist, idx)
       IN \E response \in Responses(batch) :
            /\ hist' = Append(hist, [op |-> "sp.artists", batch |-> batch,
                                     response |-> response])
            /\ cur' = [cur EXCEPT !.results = Merge(cur.results, batch, response)]
    /\ idx' = idx + BATCH_SIZE
    /\ pc' = IF idx' < Len(worklist) THEN "ba_call" ELSE "ba_done"
    /\ UNCHANGED failures
    /\ BatchUnchanged

\* spotify.py:280-285: the call raises and the exception leaves the function
BA_CallFail ==
    /\ pc = "ba_call"
    /\ failures < MaxFailures
    /\ failures' = failures + 1
    /\ pc' = "ba_raised"
    /\ UNCHANGED <<idx, cur, hist>>
    /\ BatchUnchanged

NextBatch ==
    \/ BA_Start
    \/ BA_Call
    \/ BA_CallFail

SpecBatch == InitBatch /\ [][NextBatch]_vars

\* ---------------------------------------------------------------------
\* One run of either entry script, from its first statement to the end of
\* the process. `hist` lists the accesses to the store and the remote calls
\* of the run; `cur` holds the script, the configuration read from
\* config.yml and the locals of create_all_playlists.

\* the most generator classes discover_playlist_classes finds
MaxGenerators == 2

Programs == {"sync", "auto_playlists"}

\* the value of a key of config.yml: absent or null (no list), an empty list,
\* a list with a null entry, a list with an id
ConfigLists(id) ==
    {[list |-> FALSE, items |-> <<>>], [list |-> TRUE, items |-> <<>>],
     [list |-> TRUE, items |-> <<None>>], [list |-> TRUE, items |-> <<id>>]}

\* config.py:39-48: get_usernames
get_usernames(config) ==
    IF ~ config.usernames.list \/ config.usernames.items = <<>> THEN <<>>
    ELSE SelectSeq(config.usernames.items, LAMBDA username : username # None)

\* config.py:50-59: get_playlists_to_track of utils/config.py
config_get_playlists_to_track(config) ==
    IF ~ config.playlists_to_track.list \/ config.playlists_to_track.items = <<>> THEN <<>>
    ELSE SelectSeq(config.playlists_to_track.items, LAMBDA playlist : playlist # None)

\* a validation that accepts every configuration
validate_config_AcceptAll(config) == TRUE

\* config.py:61-70
validate_config(config) ==
    ~ (get_usernames(config) = <<>> /\ config_get_playlists_to_track(config) = <<>>)

\* how the main pass of sync.py leaves its try block (sync.py:449-508)
PassOutcomes == {"completed", "no_playlists", "rate_limited", "raised"}

\* what applying one generator does (auto_playlists.py:124-136, with the
\* exit(1) of spotify.py:157, 165 that passes `except Exception`)
GeneratorOutcomes == {"playlist", "none", "raised", "rate_limited"}

\* the ways a process ends: exit(0) or the end of the script, exit(1), an
\* exception that nothing caught
Terminal == {"exit_0", "exit_1", "traceback"}

InitRun ==
    /\ playlists = EmptyTable
    /\ queue = <<>>
    /\ action_log = <<>>
    /\ songs = EmptyTable
    /\ artists = EmptyTable
    /\ playlist_songs = {}
    /\ song_artists = {}
    /\ remote \in InitialRemotes
    /\ remote["p2"].name = AutoName
    /\ now = 1
    /\ pc = "start"
    /\ tracked = <<>>
    /\ modified = <<>>
    /\ idx = 0
    /\ worklist = <<>>
    /\ \E program \in Programs, file \in {"present", "absent"},
          usernames \in ConfigLists("u1"), playlists_to_track \in ConfigLists("p1") :
         cur = [program |-> program, config_file |-> file, usernames |-> usernames,
                playlists_to_track |-> playlists_to_track,
                playlist_classes |-> 0, managed_playlists |-> 0, reported |-> FALSE]
    /\ failures = 0
    /\ pre = EmptyTable
    /\ hist = NoHist
    /\ request_times = <<>>
    /\ stage_failed = {}
    /\ rate_limit_lock = None
    /\ failed_targets = {}
    /\ session_connection = None

RunUnchanged ==
    UNCHANGED <<store, remote, now, tracked, modified, worklist, pre, request_times,
                stage_failed, rate_limit_lock, failed_targets>>

\* sync.py:14-19, auto_playlists.py:19-21, config.py:10-12: the file is read;
\* a missing file raises, an invalid configuration exits with code 1
RUN_ValidateConfig ==
    /\ pc = "start"
    /\ pc' = IF cur.config_file = "absent" THEN "traceback"
             ELSE IF ~ validate_config(cur) THEN "exit_1"
             ELSE "init_session"
    /\ UNCHANGED <<idx, cur, hist, failures, session_connection>>
    /\ RunUnchanged

\* sync.py:21-22, auto_playlists.py:23-24, db.py:16-21
RUN_InitSession ==
    /\ pc = "init_session"
    /\ session_connection' = "connection"
    /\ hist' = Append(hist, "store_opened")
    /\ pc' = "create_tables"
    /\ UNCHANGED <<idx, cur, failures>>
    /\ RunUnchanged

\* sync.py:24-25, auto_playlists.py:26-27
RUN_CreateTables ==
    /\ pc = "create_tables"
    /\ hist' = Append(hist, "store_written")
    /\ pc' = IF cur.program = "sync" THEN "pass" ELSE "discover"
    /\ UNCHANGED <<idx, cur, failures, session_connection>>
    /\ RunUnchanged

\* sync.py:25, auto_playlists.py:27: a CREATE TABLE raises; the statement is
\* outside every try block
RUN_CreateTablesFail ==
    /\ pc = "create_tables"
    /\ failures < MaxFailures
    /\ failures' = failures + 1
    /\ pc' = "traceback"
    /\ UNCHANGED <<idx, cur, hist, session_connection>>
    /\ RunUnchanged

\* sync.py:449-514: the pass, the handlers and the finally block
RUN_Pass ==
    /\ pc = "pass"
    /\ \E outcome \in PassOutcomes :
        /\ hist' = hist \o <<"store_written", "remote_call">>
        /\ pc' = CASE outcome \in {"completed", "no_playlists"} -> "exit_0"
                   [] outcome = "rate_limited" -> "exit_1"
                   [] outcome = "raised" -> "traceback"
    /\ session_connection' = None
    /\ UNCHANGED <<idx, cur, failures>>
    /\ RunUnchanged

\* auto_playlists.py:46-52, 110-119: the classes are discovered and, when
\* there are some, the rows of the others are removed
RUN_Discover ==
    /\ pc = "discover"
    /\ \E n \in 0..MaxGenerators :
        /\ cur' = [cur EXCEPT !.playlist_classes = n]
        /\ idx' = IF n = 0 THEN 0 ELSE 1
        /\ pc' = IF n = 0 THEN "report" ELSE "generate"
        /\ hist' = IF n = 0 THEN hist ELSE Append(hist, "store_written")
    /\ UNCHANGED <<failures, session_connection>>
    /\ RunUnchanged

\* auto_playlists.py:123-136: one pass of the loop over the classes
RUN_Generate ==
    /\ pc = "generate"
    /\ \E outcome \in GeneratorOutcomes :
        /\ cur' = [cur EXCEPT !.managed_playlists =
                                 IF outcome = "playlist" THEN @ + 1 ELSE @]
        /\ pc' = IF outcome = "rate_limited" THEN "exit_1"
                 ELSE IF idx < cur.playlist_classes THEN "generate" ELSE "report"
    /\ idx' = idx + 1
    /\ hist' = Append(hist, "remote_call")
    /\ UNCHANGED <<failures, session_connection>>
    /\ RunUnchanged

\* auto_playlists.py:138-150: the result is logged and the script ends
RUN_Report ==
    /\ pc = "report"
    /\ cur' = [cur EXCEPT !.reported = TRUE]
    /\ pc' = "exit_0"
    /\ UNCHANGED <<idx, hist, failures, session_connection>>
    /\ RunUnchanged

NextRun ==
    \/ RUN_ValidateConfig
    \/ RUN_InitSession
    \/ RUN_CreateTables
    \/ RUN_CreateTablesFail
    \/ RUN_Pass
    \/ RUN_Discover
    \/ RUN_Generate
    \/ RUN_Report

SpecRun == InitRun /\ [][NextRun]_vars

\* ---------------------------------------------------------------------
\* The facade functions under retry_on_timeout, called directly.

\* spotify.py:168 and the decorators: max_retries=3
MAX_RETRIES == 3
\* spotify.py:168 and the decorators: delay=30 (seconds)
RETRY_DELAY == 300
\* spotify.py:58: time.sleep(5) after a 5xx answer
SERVER_ERROR_PAUSE == 50

InitRetry ==
    /\ playlists = EmptyTable
    /\ queue = <<>>
    /\ action_log = <<>>
    /\ songs = EmptyTable
    /\ artists = EmptyTable
    /\ playlist_songs = {}
    /\ song_artists = {}
    /\ remote \in InitialRemotes
    /\ remote["p2"].name = AutoName
    /\ now = 0
    /\ pc = "rt_call"
    /\ tracked = <<>>
    /\ modified = <<>>
    /\ idx = 0
    /\ worklist = <<>>
    /\ cur \in {[func |-> f, attempt |-> 0, result |-> Return([valid |-> FALSE, accessible |-> FALSE])] :
                    f \in Facade}
    /\ failures = 0
    /\ pre = EmptyTable
    /\ hist = NoHist
    /\ request_times = <<>>
    /\ stage_failed = {}
    /\ rate_limit_lock = None
    /\ failed_targets = {}
    /\ session_connection = None

\* spotify.py:171-203 with rate_limited_call (spotify.py:49-63): one pass of
\* the for loop of the wrapper
RT_Attempt ==
    /\ pc = "rt_call"
    /\ \E outcome \in RemoteOutcomes, late \in Lates :
        LET limited == enforce_rate_limit(request_times, now, late)
            body == FacadeBody(cur.func, outcome)
            raised == body.kind = "raise"
            left == limited.current_time
                      + (IF raised /\ outcome = "500" THEN SERVER_ERROR_PAUSE + late ELSE 0)
            fatal == raised /\ check_for_rate_limit_error(outcome)
            again == raised /\ outcome = "timeout" /\ cur.attempt < MAX_RETRIES - 1
        IN /\ request_times' = limited.request_times
           /\ hist' = Append(hist, [op |-> cur.func, attempt |-> cur.attempt,
                                    outcome |-> outcome, entered |-> now, left |-> left])
           /\ IF fatal
              THEN /\ pc' = "exit_1"
                   /\ now' = left
                   /\ cur' = [cur EXCEPT !.result = body]
              ELSE IF again
              THEN /\ pc' = "rt_call"
                   /\ now' = left + RETRY_DELAY + late
                   /\ cur' = [cur EXCEPT !.attempt = cur.attempt + 1]
              ELSE /\ pc' = "rt_done"
                   /\ now' = left
                   /\ cur' = [cur EXCEPT !.result = body]
    /\ UNCHANGED <<store, remote, tracked, modified, idx, worklist, failures, pre, extras>>

NextRetry == RT_Attempt

SpecRetry == InitRetry /\ [][NextRetry]_vars

\* ---------------------------------------------------------------------
\* The remote requests of the facade functions against the ledger of the
\* rate limiter; hist lists the requests sent to the remote service.

\* pages of one listing
MaxPages == 2

\* spotify.py:209-253: the functions that follow the next-page cursor
Paginated == {"get_user_playlists", "get_playlist_songs"}

\* no facade function is running
FacadeIdle == [func |-> None, next |-> 0, user |-> FALSE]

\* the functions of the facade that the run calls
Called == Paginated \cup {"get_artist_info"}

InitPages ==
    /\ playlists = EmptyTable
    /\ queue = <<>>
    /\ action_log = <<>>
    /\ songs = EmptyTable
    /\ artists = EmptyTable
    /\ playlist_songs = {}
    /\ song_artists = {}
    /\ remote \in InitialRemotes
    /\ remote["p2"].name = AutoName
    /\ now = 0
    /\ pc = "facade"
    /\ tracked = <<>>
    /\ modified = <<>>
    /\ idx = 0
    /\ worklist = <<>>
    /\ cur = FacadeIdle
    /\ failures = 0
    /\ pre = EmptyTable
    /\ hist = NoHist
    /\ request_times = <<>>
    /\ stage_failed = {}
    /\ rate_limit_lock = None
    /\ failed_targets = {}
    /\ session_connection = None

PagesUnchanged ==
    UNCHANGED <<store, remote, pc, tracked, modified, idx, worklist, failures, pre, extras>>

\* spotify.py:51-52: rate_limited_call passes the limiter, then sends the request
rate_limited_call(op, delay) ==
    LET r == enforce_rate_limit(request_times, now + delay, 0)
    IN /\ request_times' = r.request_times
       /\ hist' = Append(hist, [op |-> op, at |-> r.current_time, limited |-> TRUE])
       /\ now' = r.current_time

\* a request sent without rate_limited_call (spotify.py:221, 249, 414)
DirectRequest(op, delay) ==
    /\ hist' = Append(hist, [op |-> op, at |-> now + delay, limited |-> FALSE])
    /\ now' = now + delay
    /\ UNCHANGED request_times

\* spotify.py:171-179 with 209-211, 228-230, 234-236, 256-258, 293-310,
\* 328-347, 363-366: the wrapper hands the decorated function to
\* rate_limited_call (the client object carries client_credentials_manager);
\* the function sends its first request, which answers with the first page
FA_Call ==
    /\ pc = "facade"
    /\ cur = FacadeIdle
    /\ Len(hist) < MaxCalls
    /\ \E func \in Called, pages \in 1..MaxPages, delay \in ThreadDelays :
        /\ func \notin Paginated => pages = 1
        /\ rate_limited_call(func, delay)
        /\ cur' = [func |-> func, next |-> pages - 1, user |-> FALSE]
    /\ PagesUnchanged

\* spotify.py:220-221, 248-249: the page has a next cursor; sp.next is called
\* on the client
FA_NextPage ==
    /\ pc = "facade"
    /\ cur.func \in Paginated
    /\ cur.next > 0
    /\ DirectRequest("next", 0)
    /\ cur' = [cur EXCEPT !.next = cur.next - 1]
    /\ PagesUnchanged

\* spotify.py:222-225, 250-253 and the single-request functions: the function returns
FA_Return ==
    /\ pc = "facade"
    /\ cur.func \in Called
    /\ cur.next = 0
    /\ cur' = FacadeIdle
    /\ UNCHANGED <<now, hist, request_times>>
    /\ PagesUnchanged

\* spotify.py:412-415: create_playlist_with_tracks asks for the current user
FA_CurrentUser ==
    /\ pc = "facade"
    /\ cur = FacadeIdle
    /\ Len(hist) < MaxCalls
    /\ \E delay \in ThreadDelays : DirectRequest("current_user", delay)
    /\ cur' = [func |-> "create_playlist_with_tracks", next |-> 0, user |-> TRUE]
    /\ PagesUnchanged

\* spotify.py:418-427, 441: the playlist is created through rate_limited_call
\* (no tracks given) and the function returns
FA_CreatePlaylist ==
    /\ pc = "facade"
    /\ cur.func = "create_playlist_with_tracks"
    /\ cur.user
    /\ rate_limited_call("user_playlist_create", 0)
    /\ cur' = FacadeIdle
    /\ PagesUnchanged

NextPages ==
    \/ FA_Call
    \/ FA_NextPage
    \/ FA_Return
    \/ FA_CurrentUser
    \/ FA_CreatePlaylist

SpecPages == InitPages /\ [][NextPages]_vars

----------------------------------------------------------------------------
(* Properties *)

\* the stored membership of a playlist: the song ids of its PlaylistSong rows
Membership(ps, p) == {r[2] : r \in {x \in ps : x[1] = p}}

\* C1: sync_playlist_songs(P, C) leaves the stored membership of P equal to the
\* set of the ids of C; the same call once more reports added = 0 and
\* removed = 0 and changes no row of the store.
C1_SyncPlaylistSongsIdempotent ==
    /\ pc = "db_again" =>
          Membership(playlist_songs, hist[1].playlist_id) = Range(hist[1].ids)
    /\ (pc = "db_done" /\ Len(hist) = 2) =>
          /\ Membership(playlist_songs, hist[2].playlist_id) = Range(hist[2].ids)
          /\ hist[2].added = 0
          /\ hist[2].removed = 0
          /\ store = hist[2].before

\* the second call returned, after a first call that added one id (given twice
\* in the list) and removed another
C1_Witness ==
    /\ pc = "db_done"
    /\ Len(hist) = 2
    /\ hist[1].added = 1
    /\ hist[1].removed = 1
    /\ Len(hist[1].ids) > Cardinality(Range(hist[1].ids))

\* C2: whenever a step appends a QueueEntry, the name of that playlist in the
\* snapshots of the pass does not contain "#auto".
C2_NoQueueEntryForAuto ==
    [][Len(queue') > Len(queue) =>
         LET e == queue'[Len(queue')]
         IN /\ ~ Contains(e.playlist_name, <<"#", "a", "u", "t", "o">>)
            /\ \A n \in 1..Len(tracked) :
                 tracked[n].id = e.playlist_id =>
                     ~ Contains(tracked[n].name, <<"#", "a", "u", "t", "o">>)]_vars

\* the diff step classified an "#auto" playlist whose stored fingerprint
\* differs from the current one, and logged the SKIP
C2_Witness ==
    /\ pc = "up_upsert"
    /\ \E n \in 1..Len(tracked) :
        /\ Contains(tracked[n].name, <<"#", "a", "u", "t", "o">>)
        /\ tracked[n].id \in DOMAIN pre
        /\ pre[tracked[n].id].snapshot_id # tracked[n].snapshot_id
        /\ \E m \in 1..Len(action_log) :
            /\ action_log[m].action_type = "SKIP"
            /\ action_log[m].entity_id = tracked[n].id
            /\ action_log[m].timestamp = now

\* the rows of the queue written in this pass for playlist id p
QueuedNow(p) == {m \in 1..Len(queue) : queue[m].playlist_id = p /\ queue[m].detected_at = now}

\* the audit entries of the given type written in this pass for playlist id p
LoggedNow(type, p) ==
    {m \in 1..Len(action_log) : /\ action_log[m].action_type = type
                                /\ action_log[m].entity_id = p
                                /\ action_log[m].timestamp = now}

HasMarker(name) == Contains(name, <<"#", "a", "u", "t", "o">>)

IsNew(p) == p.id \notin DOMAIN pre
IsModified(p) == p.id \in DOMAIN pre /\ pre[p.id].snapshot_id # p.snapshot_id
IsUnchanged(p) == p.id \in DOMAIN pre /\ pre[p.id].snapshot_id = p.snapshot_id

\* C3: when the classification of a diff pass is over, every tracked playlist
\* that is new or modified and whose name lacks "#auto" has exactly one
\* QueueEntry of this pass: NEW with a null old fingerprint, or MODIFIED with
\* the stored fingerprint as the old one; the new fingerprint is the current one.
C3_ExactlyOneQueueEntry ==
    pc = "up_upsert" =>
        \A n \in 1..Len(tracked) :
            LET p == tracked[n]
            IN ((IsNew(p) \/ IsModified(p)) /\ ~ HasMarker(p.name)) =>
                 /\ Cardinality(QueuedNow(p.id)) = 1
                 /\ \A m \in QueuedNow(p.id) :
                      /\ queue[m].new_snapshot_id = p.snapshot_id
                      /\ IF IsNew(p)
                         THEN /\ queue[m].change_type = "NEW"
                              /\ queue[m].old_snapshot_id = None
                         ELSE /\ queue[m].change_type = "MODIFIED"
                              /\ queue[m].old_snapshot_id = pre[p.id].snapshot_id

\* the same with one QueueEntry per occurrence of the playlist in the list
\* passed in (C3 holds of the code in this form)
C3_OneEntryPerOccurrence ==
    pc = "up_upsert" =>
        \A n \in 1..Len(tracked) :
            LET p == tracked[n]
            IN ((IsNew(p) \/ IsModified(p)) /\ ~ HasMarker(p.name)) =>
                 /\ Cardinality(QueuedNow(p.id)) =
                        Cardinality({k \in 1..Len(tracked) : tracked[k].id = p.id})
                 /\ \A m \in QueuedNow(p.id) :
                      /\ queue[m].new_snapshot_id = p.snapshot_id
                      /\ IF IsNew(p)
                         THEN /\ queue[m].change_type = "NEW"
                              /\ queue[m].old_snapshot_id = None
                         ELSE /\ queue[m].change_type = "MODIFIED"
                              /\ queue[m].old_snapshot_id = pre[p.id].snapshot_id

\* C4: when update_playlists has returned, a tracked playlist whose stored
\* fingerprint equalled the current one has no QueueEntry and no ADD_TO_QUEUE
\* audit entry of this pass, and its Playlist row holds the snapshot's metadata.
C4_UnchangedNotQueuedButRefreshed ==
    pc = "us_start" =>
        \A n \in 1..Len(tracked) :
            LET p == tracked[n]
            IN IsUnchanged(p) =>
                 /\ QueuedNow(p.id) = {}
                 /\ LoggedNow("ADD_TO_QUEUE", p.id) = {}
                 /\ p.id \in DOMAIN playlists
                 /\ playlists[p.id] = [name |-> p.name, snapshot_id |-> p.snapshot_id]

\* update_playlists returned for a playlist with an unchanged fingerprint and a
\* new name, while another playlist of the pass was queued
C4_Witness ==
    /\ pc = "us_start"
    /\ \E n \in 1..Len(tracked) :
        /\ IsUnchanged(tracked[n])
        /\ pre[tracked[n].id].name # tracked[n].name
        /\ ~ HasMarker(tracked[n].name)
    /\ \E m \in 1..Len(queue) : queue[m].detected_at = now

\* C5: when update_playlists has returned, every snapshot passed in has a
\* Playlist row holding the snapshot's fingerprint.
C5_EverySnapshotUpserted ==
    pc = "us_start" =>
        \A n \in 1..Len(tracked) :
            /\ tracked[n].id \in DOMAIN playlists
            /\ playlists[tracked[n].id].snapshot_id = tracked[n].snapshot_id

\* update_playlists returned for a modified playlist and a skipped "#auto"
\* playlist seen for the first time
C5_Witness ==
    /\ pc = "us_start"
    /\ \E n \in 1..Len(tracked) : IsModified(tracked[n]) /\ ~ HasMarker(tracked[n].name)
    /\ \E n \in 1..Len(tracked) : IsNew(tracked[n]) /\ HasMarker(tracked[n].name)

TerminalTypes == {"SYNC_COMPLETE", "SYNC_FAILED", "REMOVE_FROM_QUEUE"}

\* the audit entries of this pass that end the processing of a queued row of p
TerminalNow(p) ==
    {m \in 1..Len(action_log) : /\ action_log[m].action_type \in TerminalTypes
                                /\ action_log[m].entity_id = p
                                /\ action_log[m].timestamp = now}

TryBlock == {"us_fetch", "us_batch", "us_insert_song", "us_insert_artist",
             "us_insert_song_artist", "us_sync", "us_log_complete", "us_failed"}

\* C6: from the track fetch to the end of the exception handler no QueueEntry
\* is removed; the handler appends a SYNC_FAILED entry with success = false;
\* and when update_songs has returned, every row read from the queue has been
\* processed to an end (SYNC_COMPLETE, SYNC_FAILED or REMOVE_FROM_QUEUE).
C6_FailedSyncKeepsQueueAndContinues ==
    /\ [](pc = "co_playlists" =>
            \A p \in PIDs :
                Cardinality(TerminalNow(p)) =
                    Cardinality({k \in 1..Len(worklist) : worklist[k].playlist_id = p}))
    /\ [][/\ pc \in TryBlock => queue' = queue
          /\ pc = "us_failed" =>
                action_log' = Append(action_log,
                    [action_type |-> "SYNC_FAILED", entity_id |-> cur.playlist_id,
                     details |-> <<>>, success |-> FALSE, timestamp |-> now])]_vars

\* update_songs returned after the sync of one playlist failed and a playlist
\* queued behind it was synced; the rows of the failed one are still queued
C6_Witness ==
    /\ pc = "co_playlists"
    /\ \E m1, m2 \in 1..Len(action_log) :
        /\ m1 < m2
        /\ action_log[m1].timestamp = now
        /\ action_log[m1].action_type = "SYNC_FAILED"
        /\ action_log[m1].success = FALSE
        /\ action_log[m2].timestamp = now
        /\ action_log[m2].action_type = "SYNC_COMPLETE"
        /\ action_log[m2].entity_id # action_log[m1].entity_id
        /\ \E k \in 1..Len(queue) : queue[k].playlist_id = action_log[m1].entity_id

\* C7: sync_playlist_songs reports added = |C \ S| and removed = |S \ C| for
\* the stored membership S and the fetched ids C; the SYNC_COMPLETE entry with
\* these counts is appended while the queue is untouched; the step after it
\* leaves no QueueEntry of the playlist.
C7_SyncCompleteThenQueueDeleted ==
    [][/\ (pc = "us_sync" /\ pc' = "us_log_complete") =>
             LET S == Membership(playlist_songs, cur.playlist_id)
                 C == Range(cur.current_song_ids)
             IN /\ cur'.sync_result.added = Cardinality(C \ S)
                /\ cur'.sync_result.removed = Cardinality(S \ C)
                /\ Membership(playlist_songs', cur.playlist_id) = C
       /\ pc = "us_log_complete" =>
             /\ action_log' = Append(action_log,
                    [action_type |-> "SYNC_COMPLETE", entity_id |-> cur.playlist_id,
                     details |-> <<cur.sync_result.added, cur.sync_result.removed>>,
                     success |-> TRUE, timestamp |-> now])
             /\ queue' = queue
             /\ cur' = cur
             /\ pc' = "us_delete_queue"
       /\ pc = "us_delete_queue" =>
             \A k \in 1..Len(queue') : queue'[k].playlist_id # cur.playlist_id]_vars

\* the SYNC_COMPLETE entry of a sync that added one song and removed one is
\* written, and the rows of the playlist are still queued
C7_Witness ==
    /\ pc = "us_delete_queue"
    /\ cur.sync_result.added = 1
    /\ cur.sync_result.removed = 1
    /\ action_log[Len(action_log)].action_type = "SYNC_COMPLETE"
    /\ action_log[Len(action_log)].details = <<1, 1>>
    /\ \E k \in 1..Len(queue) : queue[k].playlist_id = cur.playlist_id

\* C8: when validation reports a queued playlist X invalid or inaccessible, the
\* iteration goes to the removal without a track fetch, appends one
\* REMOVE_FROM_QUEUE entry, then deletes every QueueEntry of X and no other,
\* and changes neither the Playlist rows nor the PlaylistSong rows.
C8_InvalidPlaylistRemovedFromQueue ==
    [][/\ (pc = "us_validate" /\ cur'.val # "ok") => pc' = "us_remove_log"
       /\ pc = "us_remove_log" =>
             /\ action_log' = Append(action_log,
                    [action_type |-> "REMOVE_FROM_QUEUE", entity_id |-> cur.playlist_id,
                     details |-> <<>>, success |-> TRUE, timestamp |-> now])
             /\ pc' = "us_remove_delete"
             /\ cur' = cur
             /\ UNCHANGED <<playlists, queue, songs, artists, playlist_songs, song_artists>>
       /\ pc = "us_remove_delete" =>
             /\ \A k \in 1..Len(queue') : queue'[k].playlist_id # cur.playlist_id
             /\ \A q \in PIDs \ {cur.playlist_id} :
                    Cardinality({k \in 1..Len(queue') : queue'[k].playlist_id = q}) =
                    Cardinality({k \in 1..Len(queue) : queue[k].playlist_id = q})
             /\ pc' \in {"us_validate", "co_playlists"}
             /\ UNCHANGED <<playlists, action_log, songs, artists, playlist_songs,
                            song_artists>>]_vars

\* a queued playlist with a Playlist row and PlaylistSong rows failed its
\* validation and its queue rows are gone
C8_Witness ==
    /\ pc \in {"us_validate", "co_playlists"}
    /\ Len(action_log) > 0
    /\ LET last == action_log[Len(action_log)]
       IN /\ last.action_type = "REMOVE_FROM_QUEUE"
          /\ last.timestamp = now
          /\ last.entity_id \in DOMAIN playlists
          /\ Membership(playlist_songs, last.entity_id) # {}
          /\ \A k \in 1..Len(queue) : queue[k].playlist_id # last.entity_id
          /\ queue # <<>>

\* the rows of q for playlist p, in their order
EntriesOf(q, p) == SelectSeq(q, LAMBDA e : e.playlist_id = p)

\* C9: after delete_queue(P) no QueueEntry of P is left and the entries of
\* every other playlist are the ones that were there; with no entry of P the
\* queue is the same as before; no other table is touched.
C9_DeleteQueueRemovesExactlyP ==
    (pc = "db_done" /\ hist[1].op = "delete_queue") =>
        LET P == hist[1].playlist_id
            before == hist[1].before
        IN /\ EntriesOf(queue, P) = <<>>
           /\ \A q \in PIDs \ {P} : EntriesOf(queue, q) = EntriesOf(before[2], q)
           /\ Len(queue) = Len(before[2]) - Len(EntriesOf(before[2], P))
           /\ EntriesOf(before[2], P) = <<>> => queue = before[2]
           /\ <<playlists, action_log, songs, artists, playlist_songs, song_artists>>
                = <<before[1], before[3], before[4], before[5], before[6], before[7]>>

\* delete_queue(P) returned on a queue that held a row of P and a row of
\* another playlist
C9_Witness ==
    /\ pc = "db_done"
    /\ hist[1].op = "delete_queue"
    /\ EntriesOf(hist[1].before[2], hist[1].playlist_id) # <<>>
    /\ queue # <<>>

\* delete_queue(P) returned on a non-empty queue without a row of P
C9_NoEntryCase ==
    /\ pc = "db_done"
    /\ hist[1].op = "delete_queue"
    /\ EntriesOf(hist[1].before[2], hist[1].playlist_id) = <<>>
    /\ queue # <<>>

\* the store holds no orphan of any of the five kinds
NoOrphans ==
    /\ tracked = <<>> => DOMAIN playlists = {}
    /\ DOMAIN playlists \subseteq Range(TrackedIds(tracked))
    /\ \A r \in playlist_songs : r[1] \in DOMAIN playlists
    /\ \A t \in DOMAIN songs : \E r \in playlist_songs : r[2] = t
    /\ \A r \in song_artists : r[1] \in DOMAIN songs
    /\ \A a \in DOMAIN artists : \E r \in song_artists : r[2] = a

\* C10: when cleanup_orphaned_data has returned, whatever store and tracked
\* list it started from, no orphan of any of the five kinds is left, and a
\* second call leaves the store as it found it.
C10_SingleSweepCascades ==
    pc = "co_done" =>
        /\ NoOrphans
        /\ Len(hist) = 2 => store = hist[2].before

\* two sweeps returned; the first started with an untracked playlist that
\* alone referenced a song with an artist, and a tracked playlist remains
C10_Witness ==
    /\ pc = "co_done"
    /\ Len(hist) = 2
    /\ DOMAIN playlists # {}
    /\ LET before == hist[1].before
       IN \E p \in DOMAIN before[1] \ DOMAIN playlists :
          \E t \in DOMAIN before[4] \ DOMAIN songs :
          \E a \in DOMAIN before[5] \ DOMAIN artists :
             /\ <<p, t>> \in before[6]
             /\ <<t, a>> \in before[7]

\* the tracked playlists that had a Playlist row when the sweep started
TrackedStored == Range(TrackedIds(tracked)) \cap DOMAIN hist[1].before[1]

\* the songs a PlaylistSong row of such a playlist referenced at that time
TrackedSongs ==
    {t \in DOMAIN hist[1].before[4] : \E p \in TrackedStored : <<p, t>> \in hist[1].before[6]}

\* C11: during and after the sweep, every tracked playlist that had a
\* Playlist row still has it and its PlaylistSong rows, every Song such a row
\* referenced is still stored, and so are the SongArtist rows of that song and
\* the Artist rows they name, whatever else referenced the song.
C11_SweepKeepsTrackedData ==
    LET before == hist[1].before
    IN /\ \A p \in TrackedStored :
            /\ p \in DOMAIN playlists
            /\ playlists[p] = before[1][p]
            /\ {r \in playlist_songs : r[1] = p} = {r \in before[6] : r[1] = p}
       /\ \A t \in TrackedSongs :
            /\ t \in DOMAIN songs
            /\ songs[t] = before[4][t]
            /\ \A r \in before[7] :
                  r[1] = t =>
                     /\ r \in song_artists
                     /\ r[2] \in DOMAIN before[5] =>
                           (r[2] \in DOMAIN artists /\ artists[r[2]] = before[5][r[2]])

\* the sweep returned after deleting an untracked playlist that shared a song
\* and its artist with a tracked playlist; song, link and artist are kept
C11_Witness ==
    /\ pc = "co_done"
    /\ LET before == hist[1].before
       IN \E p \in TrackedStored :
          \E o \in DOMAIN before[1] \ DOMAIN playlists :
          \E t \in DOMAIN songs :
          \E a \in DOMAIN artists :
             /\ <<p, t>> \in before[6]
             /\ <<o, t>> \in before[6]
             /\ <<t, a>> \in before[7]
             /\ <<p, t>> \in playlist_songs
             /\ <<t, a>> \in song_artists

\* the calls recorded up to now whose timestamp lies in [from, from + Window]
RecordedFrom(from) == {k \in 1..Len(hist) : from <= hist[k].at /\ hist[k].at <= from + Window}

\* C12: the ledger never holds more than N timestamps, and no 60-second
\* window starting at a recorded call contains more than N recorded calls.
C12_AtMostNPerWindow ==
    /\ Len(request_times) <= REQUESTS_PER_MINUTE
    /\ \A k \in 1..Len(hist) :
          Cardinality(RecordedFrom(hist[k].at)) <= REQUESTS_PER_MINUTE

\* a call slept for the ceiling and N calls now lie within one window
C12_Witness ==
    /\ Len(request_times) = REQUESTS_PER_MINUTE
    /\ \E k \in 1..Len(hist) :
        /\ Len(hist[k].sleeps) > 0
        /\ hist[k].sleeps[1] > MIN_REQUEST_INTERVAL
    /\ \E k \in 1..Len(hist) :
          Cardinality(RecordedFrom(hist[k].at)) = REQUESTS_PER_MINUTE

\* C13: any two consecutive timestamps of the ledger, and of the calls
\* recorded at all, differ by at least 60/N seconds.
C13_MinimumSpacing ==
    /\ \A k \in 1..(Len(request_times) - 1) :
          request_times[k + 1] - request_times[k] >= MIN_REQUEST_INTERVAL
    /\ \A k \in 1..(Len(hist) - 1) : hist[k + 1].at - hist[k].at >= MIN_REQUEST_INTERVAL

\* the last call slept for the ceiling only and was recorded after the one
\* before it
C13_Witness ==
    /\ Len(hist) > REQUESTS_PER_MINUTE
    /\ Len(hist[Len(hist)].sleeps) = 1
    /\ hist[Len(hist)].within = REQUESTS_PER_MINUTE - 1
    /\ hist[Len(hist)].sleeps[1] < MIN_REQUEST_INTERVAL
    /\ Len(request_times) >= 2

\* N+1 calls were made with no time passing but the sleeps
Instantaneous ==
    /\ pc = "rate"
    /\ Len(hist) = REQUESTS_PER_MINUTE + 1
    /\ \A k \in 1..Len(hist) : hist[k].delay = 0 /\ hist[k].late = 0

\* the number of sleeps of the calls hist[1..n]
RECURSIVE SleepCount(_)
SleepCount(n) == IF n = 0 THEN 0 ELSE SleepCount(n - 1) + Len(hist[n].sleeps)

\* C14 as stated: N+1 instantaneous calls on an empty ledger make one sleep
\* in all, and after it fewer than N ledger entries lie in the last 60 s.
C14_ExactlyOneSleep ==
    Instantaneous =>
        /\ SleepCount(REQUESTS_PER_MINUTE + 1) = 1
        /\ hist[REQUESTS_PER_MINUTE + 1].within < REQUESTS_PER_MINUTE

\* C14 amended: of N+1 instantaneous calls on an empty ledger the first does
\* not sleep, calls 2..N each sleep once for the spacing of 60/N seconds, the
\* (N+1)th sleeps exactly once, for the ceiling, and after that sleep fewer
\* than N ledger entries lie in the last 60 seconds.
C14_OneCeilingSleepInLastCall ==
    Instantaneous =>
        /\ hist[1].sleeps = <<>>
        /\ \A k \in 2..REQUESTS_PER_MINUTE : hist[k].sleeps = <<MIN_REQUEST_INTERVAL>>
        /\ hist[REQUESTS_PER_MINUTE + 1].sleeps = <<MIN_REQUEST_INTERVAL + Tenth>>
        /\ hist[REQUESTS_PER_MINUTE + 1].within < REQUESTS_PER_MINUTE
        /\ \A k \in 1..Len(request_times) : now - request_times[k] <= Window

\* the (N+1)th instantaneous call has returned
C14_Witness ==
    /\ Instantaneous
    /\ Len(request_times) = REQUESTS_PER_MINUTE
    /\ hist[REQUESTS_PER_MINUTE + 1].sleeps # <<>>

\* C15: for every decorated function, an attempt whose remote call timed out
\* is followed by another attempt unless it was the 3rd, the next attempt
\* starts at least 30 seconds later, a 3rd timeout reaches the caller as a
\* timeout, and no attempt follows any other outcome.
C15_TimeoutsRetriedThreeTimes ==
    /\ \A k \in 1..Len(hist) :
        /\ (hist[k].outcome = "timeout" /\ k < MAX_RETRIES) =>
              (pc = "rt_call" \/ Len(hist) > k)
        /\ hist[k].outcome # "timeout" => Len(hist) = k
        /\ k > 1 => hist[k].entered - hist[k - 1].left >= RETRY_DELAY
    /\ Len(hist) <= MAX_RETRIES
    /\ (Len(hist) = MAX_RETRIES /\ hist[MAX_RETRIES].outcome = "timeout") =>
          (pc = "rt_done" /\ cur.result.kind = "raise" /\ cur.result.error = "timeout")

\* the same for the decorated functions that have no exception handler of
\* their own
C15_FetchesRetried ==
    cur.func \notin Validators \cup {"validate_user_playlists_accessible"} =>
        C15_TimeoutsRetriedThreeTimes

\* the places of a pass where a remote call is made
RemoteCallSites == {"get_playlists", "us_validate", "us_fetch", "us_batch", "us_insert_artist"}

\* C16: every step on which a remote operation of the pass got an explicit
\* rate-limit signal (HTTP 429, or a text naming a rate limit) ends the
\* process with exit code 1; no audit entry is written for it and the pass
\* does not go on.
C16_RateLimitAlwaysFatal ==
    [][(pc \in RemoteCallSites /\ cur' # cur /\ check_for_rate_limit_error(cur'.outcome)) =>
            (pc' = "exit_1" /\ action_log' = action_log /\ queue' = queue)]_vars

\* the same for the remote calls that are not validations
C16_FetchRateLimitFatal ==
    [][(pc \in RemoteCallSites \ {"us_validate"} /\ cur' # cur
            /\ check_for_rate_limit_error(cur'.outcome)) =>
            (pc' = "exit_1" /\ action_log' = action_log /\ queue' = queue)]_vars

\* C17: a step of the diff step on which classifying, enqueueing or upserting
\* one playlist fails goes on with the next playlist of the loop, or with the
\* step after the loop when it was the last one.
C17_DiffStepContinuesAfterFailure ==
    [][(pc \in {"up_classify", "up_upsert"} /\ failures' # failures) =>
            pc' \in {"up_classify", "up_upsert", "us_start"}]_vars

\* C18: when update_songs has returned, every playlist id, however many rows
\* of it the queue held, was started (validated, then fetched and reconciled)
\* at most once in this pass and has at most one SYNC_COMPLETE entry of it.
C18_QueuedIdProcessedOnce ==
    pc = "co_playlists" =>
        \A p \in PIDs :
            /\ Cardinality(LoggedNow("SYNC_START", p)) <= 1
            /\ Cardinality(LoggedNow("SYNC_COMPLETE", p)) <= 1

\* the audit entries of the given type written for playlist p in pass t
LoggedIn(type, p, t) ==
    {m \in 1..Len(action_log) : /\ action_log[m].action_type = type
                                /\ action_log[m].entity_id = p
                                /\ action_log[m].timestamp = t}

\* C19, the removals: a step that leaves fewer QueueEntry rows of a playlist p
\* is the delete_queue(p) after a sync of p, the delete_queue(p) after a
\* failed validation of p, or the orphan sweep deleting p.
QueueRowsRemovedOnlyByOwner ==
    \A p \in PIDs :
        Len(EntriesOf(queue', p)) < Len(EntriesOf(queue, p)) =>
            \/ pc = "us_delete_queue" /\ cur.playlist_id = p
            \/ pc = "us_remove_delete" /\ cur.playlist_id = p
            \/ pc = "co_playlists" /\ p \notin Range(TrackedIds(tracked))

\* C19, the retry: when update_songs has returned in the pass after one in
\* which the sync of a still tracked playlist failed, the playlist has been
\* processed again in this pass, and if a sync of it completed no row of
\* it is left in the queue.
FailedSyncProcessedAgain ==
    pc = "co_playlists" =>
        \A p \in Range(TrackedIds(tracked)) :
            /\ LoggedIn("SYNC_FAILED", p, now - 1) # {} => TerminalNow(p) # {}
            /\ LoggedNow("SYNC_COMPLETE", p) # {} => EntriesOf(queue, p) = <<>>

\* C19: QueueEntry rows leave the queue only by a successful sync, a failed
\* validation or the orphan sweep of their playlist; hence a tracked playlist
\* whose sync failed in one pass is processed again in the next pass, and a
\* completed sync of it leaves no row of it in the queue.
C19_FailedSyncRetriedNextPass ==
    [][QueueRowsRemovedOnlyByOwner]_vars /\ []FailedSyncProcessedAgain

\* the removals alone
C19_RemovalsOnly == [][QueueRowsRemovedOnlyByOwner]_vars

\* the retry for a playlist that was processed once in the pass it failed in
C19_RetriedWhenProcessedOnce ==
    pc = "co_playlists" =>
        \A p \in Range(TrackedIds(tracked)) :
            /\ (LoggedIn("SYNC_FAILED", p, now - 1) # {}
                    /\ Cardinality(UNION {LoggedIn(type, p, now - 1) : type \in TerminalTypes}) = 1)
                  => TerminalNow(p) # {}
            /\ LoggedNow("SYNC_COMPLETE", p) # {} => EntriesOf(queue, p) = <<>>

\* the valid track ids the remote playlist p holds, and their artists
RemoteTrackIds(p) ==
    {RemoteItems(remote[p].snapshot_id)[n].id :
        n \in 1..Len(RemoteItems(remote[p].snapshot_id))} \ {None}
RemoteArtistIds(p) == UNION {Range(TrackArtists(t)) : t \in RemoteTrackIds(p)}

\* the first pass, from the empty store, tracked p alone, nothing failed, the
\* validation of p succeeded, and the pass has done its last store change
FirstPassOver(p) ==
    /\ now = 1
    /\ pc = "co_done"
    /\ tracked = <<Snapshot(p)>>
    /\ ~ HasMarker(remote[p].name)
    /\ failures = 0
    /\ LoggedNow("REMOVE_FROM_QUEUE", p) = {}

\* C20: after one full pass from the empty store over a playlist P without
\* '#auto', the store holds the Playlist row of P with its fingerprint, one
\* Song row per valid track, one Artist row per artist, one PlaylistSong row
\* per track, one SongArtist row per (track, artist) pair and no QueueEntry,
\* and the audit log holds one SYNC_COMPLETE entry, with added = |T| and
\* removed = 0.
C20_FullPassFromEmptyStore ==
    \A p \in PIDs :
        FirstPassOver(p) =>
            /\ DOMAIN playlists = {p}
            /\ playlists[p].snapshot_id = remote[p].snapshot_id
            /\ DOMAIN songs = RemoteTrackIds(p)
            /\ DOMAIN artists = RemoteArtistIds(p)
            /\ playlist_songs = {p} \X RemoteTrackIds(p)
            /\ song_artists = {r \in RemoteTrackIds(p) \X AIDs : r[2] \in Range(TrackArtists(r[1]))}
            /\ queue = <<>>
            /\ Cardinality(LoggedNow("SYNC_COMPLETE", p)) = 1
            /\ \A m \in LoggedNow("SYNC_COMPLETE", p) :
                  action_log[m].details = <<Cardinality(RemoteTrackIds(p)), 0>>

\* the pass was over a playlist whose remote list holds a track twice and an
\* item without a track
C20_Witness ==
    /\ FirstPassOver("p2")
    /\ remote["p2"].snapshot_id = "s2"
    /\ Cardinality(DOMAIN songs) = 2
    /\ LoggedNow("SYNC_COMPLETE", "p2") # {}

\* stage k of the sweep has left nothing of its kind behind
StageClean(k) ==
    CASE k = 1 -> get_orphaned_playlists(playlists, TrackedIds(tracked)) = {}
      [] k = 2 -> \A r \in playlist_songs : r[1] \in DOMAIN playlists
      [] k = 3 -> get_orphaned_songs(songs, playlist_songs) = {}
      [] k = 4 -> \A r \in song_artists : r[1] \in DOMAIN songs
      [] k = 5 -> get_orphaned_artists(artists, song_artists) = {}

\* the sweep has run its last stage
SweepOver == pc \in {"co_done", "co_returned"}

\* C21: when the sweep is over and a handler of one stage logged an error,
\* every stage that logged none has removed all orphans of its kind (so the
\* stages after the failed one ran, on the store the failed one left), and
\* when the error was the deletion of one orphaned playlist, every other
\* playlist that was orphaned when the sweep started is gone with its queue rows.
C21_LaterStagesAndPlaylistsStillDone ==
    (SweepOver /\ stage_failed # {}) =>
        /\ \A k \in DOMAIN Stages : Stages[k] \notin FailedStages => StageClean(k)
        /\ \A f \in stage_failed :
              (f[1] = Stages[1] /\ f[2] # None) =>
                 \A p \in get_orphaned_playlists(hist[1].before[1], TrackedIds(tracked)) \ {f[2]} :
                    /\ p \notin DOMAIN playlists
                    /\ EntriesOf(queue, p) = <<>>

\* the deletion of the first of two orphaned playlists raised after its
\* PlaylistSong rows were gone; the second playlist was deleted, and the later
\* stages deleted a song and an artist
C21_Witness ==
    /\ SweepOver
    /\ \E p \in DOMAIN playlists, q \in DOMAIN hist[1].before[1] \ DOMAIN playlists :
          /\ stage_failed = {<<Stages[1], p>>}
          /\ SeqOfSet(DOMAIN hist[1].before[1]) = <<p, q>>
          /\ \E r \in hist[1].before[6] : r[1] = p
          /\ \A r \in playlist_songs : r[1] # p
    /\ DOMAIN hist[1].before[4] # DOMAIN songs
    /\ DOMAIN hist[1].before[5] # DOMAIN artists

\* C22: the sweep returns to its caller in the ordinary way only when no
\* handler of a stage logged an error; a sweep in which a stage failed leaves
\* by the raise of sync.py:442-444 instead.
C22_FailedSweepRaises == pc = "co_returned" => stage_failed = {}

\* the pcs of the five stages of the sweep
SweepPcs == {"co_playlists", "co_playlist_songs", "co_songs", "co_song_artists", "co_artists"}

\* C23: a stage of the orphan sweep that deletes rows appends an
\* ActionLogEntry in the same step.
C23_SweepDeletionAudited ==
    [][(pc \in SweepPcs
        /\ <<playlists, queue, songs, artists, playlist_songs, song_artists>>'
             # <<playlists, queue, songs, artists, playlist_songs, song_artists>>)
       => Len(action_log') > Len(action_log)]_vars

\* C25: an Artist row that stays stored over a step is the same row after it.
C25_StoredArtistNeverRewritten ==
    [][\A a \in DOMAIN artists \cap DOMAIN artists' : artists'[a] = artists[a]]_vars

\* every junction row references rows that exist
ReferencesExist ==
    /\ \A r \in playlist_songs : r[1] \in DOMAIN playlists /\ r[2] \in DOMAIN songs
    /\ \A r \in song_artists : r[1] \in DOMAIN songs /\ r[2] \in DOMAIN artists

C24_LedgerBoundsUnderThreads ==
    /\ Cardinality(Inside) <= 1
    /\ Len(request_times) <= REQUESTS_PER_MINUTE
    /\ \A k \in 1..Len(hist) :
          Cardinality(RecordedFrom(hist[k].at)) <= REQUESTS_PER_MINUTE
    /\ \A k \in 1..(Len(hist) - 1) : hist[k + 1].at - hist[k].at >= MIN_REQUEST_INTERVAL

\* one thread sleeps for the ceiling inside the block while the other waits
\* for the lock, after the two threads recorded calls in turn with N of them
\* in one window
C24_Witness ==
    /\ \E t \in Threads : cur[t].pc = "sleep_ceiling"
    /\ \E t \in Threads : cur[t].pc = "out"
    /\ \E k \in 1..(Len(hist) - 1) : hist[k].thread # hist[k + 1].thread
    /\ \E k \in 1..Len(hist) :
          Cardinality(RecordedFrom(hist[k].at)) = REQUESTS_PER_MINUTE

\* the ids of the batch calls made, in call order
RECURSIVE BatchesMade(_)
BatchesMade(calls) ==
    IF calls = <<>> THEN <<>> ELSE Head(calls).batch \o BatchesMade(Tail(calls))

\* the ids a call answered with a non-null artist
NonNull(call) == {call.batch[n] : n \in {m \in DOMAIN call.batch : call.response[m]}}

\* C27: when get_artists_batch has returned for a list of n unique ids, it
\* has made exactly ceil(n / batch size) calls, each with at least one and at
\* most batch-size ids, the batches in call order are the list itself (every
\* id in exactly one batch), and the result maps exactly the ids answered
\* with a non-null artist to that artist.
C27_BatchesCoverListOnce ==
    pc = "ba_done" =>
        /\ Len(hist) = (Len(worklist) + BATCH_SIZE - 1) \div BATCH_SIZE
        /\ \A k \in DOMAIN hist :
              Len(hist[k].batch) >= 1 /\ Len(hist[k].batch) <= BATCH_SIZE
        /\ BatchesMade(hist) = worklist
        /\ DOMAIN cur.results = UNION {NonNull(hist[k]) : k \in DOMAIN hist}
        /\ \A a \in DOMAIN cur.results : cur.results[a] = ArtistInfo(a)

\* a list whose length is not a multiple of the batch size took three calls,
\* and one of them returned a null for an id
C27_Witness ==
    /\ pc = "ba_done"
    /\ Len(worklist) = 2 * BATCH_SIZE + 1
    /\ Len(hist) = 3
    /\ \E k \in DOMAIN hist : \E n \in DOMAIN hist[k].batch : ~ hist[k].response[n]
    /\ cur.results # EmptyTable

\* both keys of the configuration read are absent, null or empty lists
BothEmpty ==
    /\ cur.config_file = "present"
    /\ cur.usernames.items = <<>>
    /\ cur.playlists_to_track.items = <<>>

\* C28: a sync run whose configuration has neither usernames nor playlists
\* to track never gets past its validation, where it exits with code 1: no
\* remote call is made and the store is neither opened nor written.
C28_EmptyConfigExitsBeforeAnyAccess ==
    (cur.program = "sync" /\ BothEmpty) =>
        /\ pc \in {"start", "exit_1"}
        /\ hist = <<>>
        /\ session_connection = None

\* the sync run with `usernames: []` and no playlists_to_track key has exited
C28_Witness ==
    /\ cur.program = "sync"
    /\ BothEmpty
    /\ cur.usernames.list
    /\ ~ cur.playlists_to_track.list
    /\ pc = "exit_1"

\* C29: when a run has ended, the session connection of the store is closed.
C29_SessionClosedAtExit == pc \in Terminal => session_connection = None

\* C30: a playlist-generation run that reported with no playlist managed has
\* ended with exit code 1.
C30_NoPlaylistExitsOne ==
    (cur.program = "auto_playlists" /\ cur.reported /\ cur.managed_playlists = 0) =>
        pc = "exit_1"

\* C31: when the classification of a diff pass is over, every tracked playlist
\* whose name contains "#auto" has exactly one SKIP audit entry of this pass,
\* whether its fingerprint is new, changed or unchanged.
C31_AutoPlaylistSkippedOnce ==
    pc = "up_upsert" =>
        \A n \in 1..Len(tracked) :
            HasMarker(tracked[n].name) =>
                Cardinality(LoggedNow("SKIP", tracked[n].id)) = 1

\* sync.py:234-239: the artists of the new tracks, in the order the loops visit them
RECURSIVE ArtistOccurrences(_)
ArtistOccurrences(tracks) ==
    IF tracks = <<>> THEN <<>>
    ELSE Head(tracks).artists \o ArtistOccurrences(Tail(tracks))

\* C32: in the sync of a queued playlist, the step that writes the Artist row
\* of an artist of a new track stores the batch data and fetches nothing when
\* the batch result holds the artist id, and otherwise makes one individual
\* fetch and stores its result; the Song row of the track was written in this
\* pass before it, and the step that writes the SongArtist row finds both the
\* Song row and the Artist row stored; when the loops are over, the individual
\* fetches made are, in order, the artists of the new tracks that the batch
\* result lacks.
C32_ArtistFromBatchElseOneFetch ==
    [][/\ (pc = "us_insert_artist" /\ pc' = "us_insert_song_artist") =>
            LET a == CurArtistId
                t == cur.new_tracks[cur.ti].id
            IN /\ t \in DOMAIN songs
               /\ songs[t].popularity = now
               /\ a \in DOMAIN artists'
               /\ IF a \in DOMAIN cur.artist_data
                  THEN /\ artists'[a].popularity = cur.artist_data[a].popularity
                       /\ cur'.fetched = cur.fetched
                  ELSE /\ artists'[a].popularity = ArtistInfo(a).popularity
                       /\ cur'.fetched = Append(cur.fetched, a)
       /\ pc = "us_insert_song_artist" =>
            LET a == CurArtistId
                t == cur.new_tracks[cur.ti].id
            IN /\ t \in DOMAIN songs
               /\ a \in DOMAIN artists
               /\ <<t, a>> \in song_artists'
               /\ cur'.fetched = cur.fetched
       /\ (pc \in {"us_insert_song", "us_insert_song_artist"} /\ pc' = "us_sync") =>
            cur'.fetched = SelectSeq(ArtistOccurrences(cur.new_tracks),
                                     LAMBDA a : a \notin DOMAIN cur.artist_data)
      ]_vars

\* the loops over the new tracks are over: one artist came from the batch
\* result and another, missing from it, was fetched individually for each of
\* the two new tracks that name it
C32_Witness ==
    /\ pc = "us_sync"
    /\ Len(cur.new_tracks) >= 2
    /\ DOMAIN cur.artist_data # {}
    /\ Len(cur.fetched) = 2
    /\ \A n \in 1..Len(cur.fetched) : cur.fetched[n] \in DOMAIN artists
    /\ \A a \in DOMAIN cur.artist_data : a \in DOMAIN artists

\* the Playlist row of snapshot p holds p's fingerprint, which it did not when
\* update_playlists was entered
Advanced(p) ==
    /\ IsNew(p) \/ IsModified(p)
    /\ p.id \in DOMAIN playlists
    /\ playlists[p.id].snapshot_id = p.snapshot_id

\* at a point of the diff step: in the classification loop no Playlist row has
\* been written, and every tracked playlist without "#auto" whose fingerprint
\* was advanced has a QueueEntry of this pass carrying the new fingerprint
DiffStepOrdered ==
    pc \in {"up_classify", "up_upsert", "crashed"} =>
        /\ pc = "up_classify" => playlists = pre
        /\ \A n \in 1..Len(tracked) :
              LET p == tracked[n]
              IN (~ HasMarker(p.name) /\ Advanced(p)) =>
                    \E m \in QueuedNow(p.id) : queue[m].new_snapshot_id = p.snapshot_id

\* C33: while the classification loop of the diff step runs no Playlist row
\* has been written, the upsert loop writes no QueueEntry, and at every point
\* of the step, also where the process stopped in it, every tracked playlist
\* whose name lacks "#auto" and whose stored fingerprint was advanced to the
\* current one has a QueueEntry of this pass carrying that fingerprint.
C33_QueuedBeforeUpserted ==
    [][/\ pc = "up_upsert" => queue' = queue
       /\ DiffStepOrdered']_vars

\* the process stopped in the upsert loop after the first of two queued
\* playlists was upserted: its fingerprint is advanced, the other has no row yet
C33_Witness ==
    /\ pc = "crashed"
    /\ \E n, k \in 1..Len(tracked) :
        /\ ~ HasMarker(tracked[n].name)
        /\ Advanced(tracked[n])
        /\ QueuedNow(tracked[n].id) # {}
        /\ tracked[k].id \notin DOMAIN playlists
        /\ QueuedNow(tracked[k].id) # {}

\* the ids of the valid tracks a remote playlist holds at fingerprint snap
ValidTrackIdsAt(snap) == Range(TrackIds(ValidTracks(RemoteItems(snap))))

\* C34: when the sweep of a pass is over and the pass is about to complete,
\* every stored playlist whose name lacks "#auto" and that has no QueueEntry
\* has a stored membership equal to the set of the valid track ids the remote
\* playlist held at the stored fingerprint.
C34_StoredFingerprintMeansSynced ==
    pc = "co_done" =>
        \A p \in DOMAIN playlists :
            (~ HasMarker(playlists[p].name) /\ EntriesOf(queue, p) = <<>>) =>
                Membership(playlist_songs, p) = ValidTrackIdsAt(playlists[p].snapshot_id)

\* C35: when the sweep of a pass is over and the pass is about to complete,
\* every stored Song row has a SongArtist row for every artist of its track.
C35_StoredSongHasItsArtists ==
    pc = "co_done" =>
        \A t \in DOMAIN songs :
            \A a \in Range(TrackArtists(t)) : <<t, a>> \in song_artists

\* C36: in a pass whose target enumeration skipped a target after a caught
\* error and fetched at least one other playlist, no step removes the Playlist
\* row of a playlist of the skipped target, a PlaylistSong row of it, the Song
\* row of a song in its membership or the Artist row of an artist of such a song.
C36_FailedTargetRowsKept ==
    [][\A p \in failed_targets :
          (tracked # <<>> /\ p \in DOMAIN playlists) =>
              /\ p \in DOMAIN playlists'
              /\ Membership(playlist_songs, p) \subseteq Membership(playlist_songs', p)
              /\ \A t \in Membership(playlist_songs, p) \cap DOMAIN songs :
                    /\ t \in DOMAIN songs'
                    /\ \A a \in DOMAIN artists :
                          <<t, a>> \in song_artists => a \in DOMAIN artists'
      ]_vars

\* the remote requests sent, and the ledger entries recorded, in the 60
\* seconds that end now
RequestsInWindow == {k \in 1..Len(hist) : now - hist[k].at <= Window}
LedgerInWindow == {k \in 1..Len(request_times) : now - request_times[k] <= Window}

\* C37: every remote request of the facade went through the rate limiter,
\* which appended its timestamp to the ledger: the requests sent in the 60
\* seconds that end now are as many as the ledger entries of those 60 seconds.
C37_EveryRequestInLedger ==
    /\ \A k \in 1..Len(hist) : hist[k].limited
    /\ Cardinality(RequestsInWindow) = Cardinality(LedgerInWindow)

\* the rows of the six tables of playlists, queue, songs and artists
Rows == <<playlists, queue, songs, artists, playlist_songs, song_artists>>

\* C38: the step that starts a run writes the SYNC_SESSION_START entry and no
\* row; when the target enumeration then ends without a playlist and without
\* a rate-limit signal, the run exits with code 0 in that very step, with the
\* session closed, no row changed and no further audit entry written.
C38_NoPlaylistExitsUnchanged ==
    [][/\ pc' = "get_playlists" =>
            /\ UNCHANGED Rows
            /\ action_log' = log_action(action_log, "SYNC_SESSION_START", None, <<>>, TRUE, now')
       /\ (pc = "get_playlists" /\ pc' # "up_start"
              /\ ~ check_for_rate_limit_error(cur'.outcome)) =>
            /\ tracked' = <<>>
            /\ pc' = "exit_0"
            /\ session_connection' = None
            /\ UNCHANGED Rows
            /\ UNCHANGED action_log
            /\ LoggedNow("SYNC_SESSION_START", None) = {Len(action_log)}
            /\ \A m \in 1..Len(action_log) :
                  action_log[m].timestamp = now => m = Len(action_log)
      ]_vars

\* a second run found no valid playlist and exited with code 0 over a store
\* that the first run had filled
C38_Witness ==
    /\ pc = "exit_0"
    /\ now = 2
    /\ tracked = <<>>
    /\ DOMAIN playlists = PIDs
    /\ DOMAIN songs # {}
    /\ playlist_songs # {}
    /\ action_log[Len(action_log)].action_type = "SYNC_SESSION_START"

\* the PlaylistSong rows of the playlists other than p
OtherMemberships(ps, p) == {r \in ps : r[1] # p}

\* C39: a call of sync_playlist_songs(P, C), whether it returns or raises
\* part-way, leaves every PlaylistSong row of the other playlists and every
\* Playlist, Song, Artist, SongArtist, QueueEntry and audit row as it was, and
\* adds or removes only rows of P.
C39_SyncTouchesOnlyRowsOfP ==
    [][(hist' # hist /\ hist'[Len(hist')].op \in {"sync_playlist_songs",
                                                   "sync_playlist_songs raises"}) =>
          LET p == hist'[Len(hist')].playlist_id
          IN /\ UNCHANGED <<playlists, queue, action_log, songs, artists, song_artists>>
             /\ OtherMemberships(playlist_songs', p) = OtherMemberships(playlist_songs, p)
             /\ \A r \in (playlist_songs' \ playlist_songs) \cup (playlist_songs \ playlist_songs') :
                   r[1] = p
      ]_vars

\* a call raised after it had added one of two missing songs, while another
\* playlist holds a song that the call was to remove
C39_Witness ==
    /\ pc = "db_done"
    /\ hist[1].op = "sync_playlist_songs raises"
    /\ hist[1].added = 1
    /\ Cardinality(Range(hist[1].ids)) = 2
    /\ \E r \in playlist_songs :
        /\ r[1] # hist[1].playlist_id
        /\ r[2] \notin Range(hist[1].ids)
        /\ <<hist[1].playlist_id, r[2]>> \in playlist_songs

\* at any time every PlaylistSong row references a Song row (the stores of
\* InitDb are of this shape)
PlaylistSongsHaveSongs == \A r \in playlist_songs : r[2] \in DOMAIN songs

====
